---- MODULE Spec2Model ----
(***************************************************************************)
(* Model of the WiFi connectivity code of esp-wifi-connect.                *)
(*                                                                         *)
(* Part 1: WifiManager (src/wifi_manager.cc), the orchestrator that        *)
(* arbitrates between station mode and configuration-AP mode.  Every       *)
(* execution context (two application tasks and the driver event task) has *)
(* a call stack of frames; a frame is one activation of a WifiManager      *)
(* method, of NotifyEvent, or of a station event handler.  The mutex is    *)
(* std::mutex mutex_; the event loop's own lock is held by the event task  *)
(* for as long as a handler runs.                                          *)
(***************************************************************************)
EXTENDS Integers, Sequences, FiniteSets, TLC

\* Execution contexts: application tasks and the driver event task.
AppContexts == {"app1", "app2"}
DrvContext == "drv"
Contexts == AppContexts \cup {DrvContext}
\* The contexts of the sequential specification: one caller, plus the event task.
SeqContexts == {"app1", DrvContext}
NoOwner == "none"

\* How deep the event callback may re-enter the orchestrator.
MaxDepth == 2
\* Saturation value of the bring-up counters.
MaxCount == 2
\* How many calls of the public interface a run makes in all.
MaxCalls == 5

\* enum class WifiEvent
StationEvents == {"Scanning", "Connecting", "Connected"}
ModeOps == {"StartStation", "StopStation", "StartConfigAp", "StopConfigAp"}

VARIABLES
    initialized_,          \* WifiManager::initialized_
    station_active_,       \* WifiManager::station_active_
    config_mode_active_,   \* WifiManager::config_mode_active_
    event_callback_,       \* WifiManager::event_callback_ is non-empty
    mutex_,                \* owner of WifiManager::mutex_, or NoOwner
    sta_registered,        \* WifiStation::instance_any_id_ != nullptr
    was_connected_,        \* WifiStation::was_connected_
    ap_running,            \* the configuration AP component is started
    stack,                 \* per context: its call stack, top last
    wifi_inits,            \* successful esp_wifi_init calls of Initialize
    constructed,           \* times Initialize constructed the components
    calls,                 \* calls of the public interface made so far
    exitOrder,             \* monitor: ConfigModeExit of an auto-stop vs station events
    cfgSeq,                \* monitor: last ConfigModeEnter/Exit delivered
    linkSeq,               \* monitor: last Connected/Disconnected delivered
    sta,                   \* WifiStation: its members and the radio it drives
    ctl,                   \* who drives the station: owner's position, waiter, configuration
    obs,                   \* monitor: the last driver event handled and what it did
    dns,                   \* DnsServer: its members and the datagram in hand
    ap                     \* WifiConfigurationAp: its members, the radio and the ConnectToWifi caller

vars == <<initialized_, station_active_, config_mode_active_, event_callback_,
          mutex_, sta_registered, was_connected_, ap_running, stack,
          wifi_inits, constructed, calls, exitOrder, cfgSeq, linkSeq,
          sta, ctl, obs, dns, ap>>

flags == <<initialized_, station_active_, config_mode_active_>>
components == <<sta_registered, was_connected_, ap_running>>
bringup == <<wifi_inits, constructed>>
monitors == <<exitOrder, cfgSeq, linkSeq>>
\* The parts the orchestrator's own steps leave alone.
others == <<sta, ctl, obs, dns, ap>>

----------------------------------------------------------------------------
\* Frames and stacks

Frame(op, pc, ev, todo) == [op |-> op, pc |-> pc, ev |-> ev, todo |-> todo]
NotifyFrame(e) == Frame("NotifyEvent", "ne_lock", e, <<>>)

Busy(c) == stack[c] # <<>>
Top(c) == stack[c][Len(stack[c])]
At(c, op, pc) == Busy(c) /\ Top(c).op = op /\ Top(c).pc = pc
Pop(s) == SubSeq(s, 1, Len(s) - 1)
SetPc(s, pc) == [s EXCEPT ![Len(s)].pc = pc]

\* The event task holds the event loop's lock while it runs a handler.
LoopBusy == Busy(DrvContext)
\* esp_event_handler_instance_unregister takes the (recursive) loop lock.
CanUnregister(c) == c = DrvContext \/ ~LoopBusy \/ ~sta_registered

Inc(n) == IF n < MaxCount THEN n + 1 ELSE n

\* Number of callback activations on the stack of c.
CbDepth(c) == Cardinality({i \in DOMAIN stack[c] : stack[c][i].pc = "cb"})

----------------------------------------------------------------------------
\* Part 2 data: WifiStation (src/wifi_station.cc) and the radio driver it uses.

\* Networks a scan can report, and the ones SsidManager holds credentials for.
Ssids == {"A", "B", "C"}
KnownSsids == {"A", "B"}
Rssis == {-40, -70}
\* How many networks one scan reports at most.
MaxAps == 2
\* How many times the station is started in a run.
MaxStarts == 2
\* Saturation value of the count of consecutive failed scan cycles.
MaxFails == 7

\* #define MAX_RECONNECT_COUNT 5
MAX_RECONNECT_COUNT == 5

\* station_scan_min_interval_seconds, station_scan_max_interval_seconds
DefaultRange == <<10, 300>>
ScanRanges == {DefaultRange, <<10, 3600>>}

\* The largest int of the build (32 bits, two's complement).
INT_MAX == 2147483647

\* x * 2 in int arithmetic: the product wraps.
Double32(x) ==
    IF x > INT_MAX \div 2 THEN 2 * ((x - INT_MAX) - 1)
    ELSE IF x < (-(INT_MAX \div 2)) - 1 THEN 2 * ((x + INT_MAX) + 1)
    ELSE 2 * x

\* seconds * 1000 * 1000 in int arithmetic, for 0 <= seconds <= 4294: from 2148
\* seconds on the product passes INT_MAX and wraps.
MicroSeconds(seconds) ==
    IF seconds <= 2147 THEN seconds * 1000 * 1000
    ELSE (seconds - 2148) * 1000 * 1000 - 2146967296

\* The station as its constructor leaves it.
NewStation ==
    [instance_got_ip_ |-> FALSE,
     timer_handle_ |-> "null",
     event_group_ |-> {},
     connect_queue_ |-> <<>>,
     ssid_ |-> "",
     reconnect_count_ |-> 0,
     scan_min_interval_microseconds_ |-> MicroSeconds(10),
     scan_max_interval_microseconds_ |-> MicroSeconds(300),
     scan_current_interval_microseconds_ |-> MicroSeconds(10),
     radio |-> "off"]

\* Nobody waits, the station was never started; range is the configured pair
\* of scan intervals, in seconds.
NewControl(range) ==
    [pc |-> "new", waiter |-> "idle", starts |-> 0, config_ |-> range]

NoWait == [result |-> "none", cause |-> "none", bits |-> {}, at |-> "none"]

NoObs ==
    [event |-> "none", cbs |-> <<>>, scan |-> <<>>, built |-> <<>>,
     was_up |-> FALSE, link |-> FALSE, delay |-> 0, fails |-> 0,
     reconnects |-> 0, streak |-> 0, discs |-> 0, tried |-> "", request |-> "",
     advanced_after |-> 0, since_ip |-> -1, late |-> FALSE, wait |-> NoWait]

\* The size of the receive buffer of DnsServer::Run.
BufferSize == 512

\* How many times DnsServer::Start is called.
MaxDnsStarts == 2

\* The datagrams that arrive: their length, the header bytes 2, 3, 6 and 7 and
\* the endpoint they come from.
QueryLengths == {0, 5, 12, 29, 496, 497, 500, 512}
HeaderVariants == {<<1, 0, 0, 0>>, <<129, 143, 2, 7>>}
Clients == {"c1", "c2"}
Gateways == {<<192, 168, 4, 1>>, <<10, 0, 0, 1>>}
Queries ==
    {q \in [len : QueryLengths, head : HeaderVariants, from : Clients] :
        \/ q.len \in {12, 497} /\ q.from = "c1"
        \/ q.len \in {29, 500} /\ q.from = "c2" /\ q.head[1] >= 128
        \/ q.len \in {0, 496} /\ q.from = "c2" /\ q.head[1] < 128
        \/ q.len \in {5, 512} /\ q.from = "c1" /\ q.head[1] >= 128}
NoQuery == [len |-> 0, head |-> <<0, 0, 0, 0>>, from |-> ""]
NoDatagram == [to |-> "", data |-> <<>>, via |-> 0]

\* The DNS responder as its constructor leaves it: fd_ = -1, running_ false,
\* task_handle_ null, no socket, no receive loop and no call in progress.
NewDns ==
    [running_ |-> FALSE, fd_ |-> -1, gateway_ |-> <<0, 0, 0, 0>>,
     task_handle_ |-> 0, sockets |-> 0, open |-> {}, starts |-> 0,
     loops |-> <<>>, caller |-> [pc |-> "idle", then |-> "return"],
     op |-> "none", given |-> <<0, 0, 0, 0>>,
     answered |-> NoQuery, outcome |-> "none", sent |-> NoDatagram]

\* The configuration AP as its constructor leaves it: the event group empty,
\* is_connecting_ false, scan_timer_ null, nothing asked of the radio and no
\* ConnectToWifi call made.
NewAp ==
    [started |-> FALSE, is_connecting_ |-> FALSE, event_group_ |-> {},
     caller |-> [pc |-> "idle", bits |-> {}], timer |-> "idle",
     link |-> "idle", scanning |-> FALSE, pending |-> <<>>,
     attempts |-> 0, given |-> 0, calls |-> <<>>, result |-> "none",
     cause |-> "none", timer_scan_at |-> "none",
     link_by |-> 0, origin |-> <<>>, flag_by |-> {}, seen_from |-> {}]

----------------------------------------------------------------------------
\* The orchestrator and the two flags of the station it reads, before Initialize.
ManagerInit ==
    /\ initialized_ = FALSE
    /\ station_active_ = FALSE
    /\ config_mode_active_ = FALSE
    /\ event_callback_ = FALSE
    /\ mutex_ = NoOwner
    /\ sta_registered = FALSE
    /\ was_connected_ = FALSE
    /\ ap_running = FALSE
    /\ stack = [c \in Contexts |-> <<>>]
    /\ wifi_inits = 0
    /\ constructed = 0
    /\ calls = 0
    /\ exitOrder = "none"
    /\ cfgSeq = "none"
    /\ linkSeq = "none"

Init ==
    /\ ManagerInit
    /\ sta = NewStation
    /\ ctl = NewControl(DefaultRange)
    /\ obs = NoObs
    /\ dns = NewDns
    /\ ap = NewAp


----------------------------------------------------------------------------
\* Monitors (history only: no action reads them)

\* exitOrder after the callback is invoked with event e.
ExitOrderOnDeliver(e) ==
    IF e = "ConfigModeExit" /\ exitOrder = "owed" THEN "delivered"
    ELSE IF e \in StationEvents /\ exitOrder = "owed" THEN "violated"
    ELSE IF e \in StationEvents /\ exitOrder = "delivered" THEN "station_after_exit"
    ELSE exitOrder

\* exitOrder after NotifyEvent found no callback for event e.
ExitOrderOnDrop(e) ==
    IF e = "ConfigModeExit" /\ exitOrder = "owed" THEN "none" ELSE exitOrder

\* cfgSeq after the callback is invoked with event e.
CfgSeqOnDeliver(e) ==
    IF cfgSeq = "bad" THEN "bad"
    ELSE IF e = "ConfigModeEnter" THEN (IF cfgSeq = "Enter" THEN "bad" ELSE "Enter")
    ELSE IF e = "ConfigModeExit" THEN (IF cfgSeq = "Enter" THEN "Exit" ELSE "bad")
    ELSE cfgSeq

\* cfgSeq after NotifyEvent found no callback for event e: the event takes its
\* place in the order, and is not judged.
CfgSeqOnDrop(e) ==
    IF cfgSeq = "bad" THEN "bad"
    ELSE IF e = "ConfigModeEnter" THEN "Enter"
    ELSE IF e = "ConfigModeExit" THEN "Exit"
    ELSE cfgSeq

\* linkSeq after the callback is invoked with event e: a Disconnected is in
\* order after a Connected that no Disconnected has followed.
LinkSeqOnDeliver(e) ==
    IF linkSeq = "bad" THEN "bad"
    ELSE IF e = "Connected" THEN "Connected"
    ELSE IF e = "Disconnected" THEN (IF linkSeq = "Connected" THEN "Disconnected" ELSE "bad")
    ELSE linkSeq

\* linkSeq after NotifyEvent found no callback for event e: the event takes
\* its place in the order, and is not judged.
LinkSeqOnDrop(e) ==
    IF linkSeq = "bad" THEN "bad"
    ELSE IF e \in {"Connected", "Disconnected"} THEN e
    ELSE linkSeq

----------------------------------------------------------------------------
\* Components, as far as the orchestrator drives them

\* WifiStation::Start(): registers the event handlers and starts the radio.
WifiStation_Start ==
    /\ sta_registered' = TRUE
    /\ UNCHANGED was_connected_

\* WifiStation::Stop(): unregisters the handlers, tears the radio down and
\* resets was_connected_.
WifiStation_Stop ==
    /\ sta_registered' = FALSE
    /\ was_connected_' = FALSE

\* WifiConfigurationAp::Start()
WifiConfigurationAp_Start == ap_running' = TRUE

\* WifiConfigurationAp::Stop()
WifiConfigurationAp_Stop == ap_running' = FALSE

----------------------------------------------------------------------------
\* WifiManager::Initialize: the whole body runs under the lock_guard.

BringUpOutcomes == {"nvs_fail", "netif_fail", "event_loop_fail", "wifi_init_fail", "ok"}

\* Initialize without its "already initialized" early return.
Initialize_NoGuard(c) ==
    /\ mutex_ = NoOwner
    /\ \E outcome \in BringUpOutcomes :
         IF outcome = "ok"
         THEN /\ wifi_inits' = Inc(wifi_inits)
              /\ constructed' = Inc(constructed)
              /\ initialized_' = TRUE
              /\ stack' = [stack EXCEPT ![c] = Append(@, Frame("Initialize", "done_true", "none", <<>>))]
         ELSE /\ stack' = [stack EXCEPT ![c] = Append(@, Frame("Initialize", "done_false", "none", <<>>))]
              /\ UNCHANGED <<initialized_, bringup>>
    /\ UNCHANGED <<station_active_, config_mode_active_, event_callback_, mutex_,
                   components, monitors>>

Initialize(c) ==
    /\ mutex_ = NoOwner
    /\ IF initialized_
       THEN /\ stack' = [stack EXCEPT ![c] = Append(@, Frame("Initialize", "done_already", "none", <<>>))]
            /\ UNCHANGED <<initialized_, bringup>>
       ELSE \E outcome \in BringUpOutcomes :
              IF outcome = "ok"
              THEN /\ wifi_inits' = Inc(wifi_inits)
                   /\ constructed' = Inc(constructed)
                   /\ initialized_' = TRUE
                   /\ stack' = [stack EXCEPT ![c] = Append(@, Frame("Initialize", "done_true", "none", <<>>))]
              ELSE /\ stack' = [stack EXCEPT ![c] = Append(@, Frame("Initialize", "done_false", "none", <<>>))]
                   /\ UNCHANGED <<initialized_, bringup>>
    /\ UNCHANGED <<station_active_, config_mode_active_, event_callback_, mutex_,
                   components, monitors>>

\* WifiManager::SetEventCallback
SetEventCallback(c, cb) ==
    /\ mutex_ = NoOwner
    /\ event_callback_' = cb
    /\ UNCHANGED <<flags, mutex_, components, stack, bringup, monitors>>

----------------------------------------------------------------------------
\* WifiManager::NotifyEvent

\* NotifyEvent invoking the callback inside the locked block.
NotifyEvent_CopyKeepLock(c) ==
    /\ At(c, "NotifyEvent", "ne_lock")
    /\ mutex_ = NoOwner
    /\ IF event_callback_
       THEN /\ stack' = [stack EXCEPT ![c] = SetPc(@, "ne_call")]
            /\ mutex_' = c
            /\ UNCHANGED monitors
       ELSE /\ stack' = [stack EXCEPT ![c] = Pop(@)]
            /\ exitOrder' = ExitOrderOnDrop(Top(c).ev)
            /\ cfgSeq' = CfgSeqOnDrop(Top(c).ev)
            /\ linkSeq' = LinkSeqOnDrop(Top(c).ev)
            /\ UNCHANGED mutex_
    /\ UNCHANGED <<flags, event_callback_, components, bringup>>
    /\ UNCHANGED <<calls, others>>

\* lock, copy event_callback_, unlock
NotifyEvent_Copy(c) ==
    /\ At(c, "NotifyEvent", "ne_lock")
    /\ mutex_ = NoOwner
    /\ IF event_callback_
       THEN /\ stack' = [stack EXCEPT ![c] = SetPc(@, "ne_call")]
            /\ UNCHANGED monitors
       ELSE /\ stack' = [stack EXCEPT ![c] = Pop(@)]
            /\ exitOrder' = ExitOrderOnDrop(Top(c).ev)
            /\ cfgSeq' = CfgSeqOnDrop(Top(c).ev)
            /\ linkSeq' = LinkSeqOnDrop(Top(c).ev)
    /\ UNCHANGED <<flags, event_callback_, mutex_, components, bringup>>
    /\ UNCHANGED <<calls, others>>

\* callback(event)
NotifyEvent_Invoke(c) ==
    /\ At(c, "NotifyEvent", "ne_call")
    /\ stack' = [stack EXCEPT ![c] = SetPc(@, "cb")]
    /\ exitOrder' = ExitOrderOnDeliver(Top(c).ev)
    /\ cfgSeq' = CfgSeqOnDeliver(Top(c).ev)
    /\ linkSeq' = LinkSeqOnDeliver(Top(c).ev)
    /\ UNCHANGED <<flags, event_callback_, mutex_, components, bringup>>
    /\ UNCHANGED <<calls, others>>

\* the callback returns, and NotifyEvent with it
Callback_Return(c) ==
    /\ At(c, "NotifyEvent", "cb")
    /\ stack' = [stack EXCEPT ![c] = Pop(@)]
    /\ UNCHANGED <<flags, event_callback_, mutex_, components, bringup, monitors>>
    /\ UNCHANGED <<calls, others>>

----------------------------------------------------------------------------
\* WifiManager::StartStation

\* StartStation without the auto-stop of the configuration AP.
StartStation_NoAutoStop(c) ==
    /\ mutex_ = NoOwner
    /\ LET pc == IF ~initialized_ THEN "done_noinit"
                 ELSE IF station_active_ THEN "done_noop"
                 ELSE "sta_start"
       IN /\ stack' = [stack EXCEPT ![c] = Append(@, Frame("StartStation", pc, "none", <<>>))]
          /\ mutex_' = IF pc = "sta_start" THEN c ELSE NoOwner
    /\ UNCHANGED <<flags, event_callback_, components, bringup, monitors>>

\* StartStation without its "already active" early return.
StartStation_NoActiveCheck(c) ==
    /\ mutex_ = NoOwner
    /\ LET pc == IF ~initialized_ THEN "done_noinit"
                 ELSE IF config_mode_active_ THEN "ap_stop"
                 ELSE "sta_start"
       IN /\ stack' = [stack EXCEPT ![c] = Append(@, Frame("StartStation", pc, "none", <<>>))]
          /\ mutex_' = IF pc \in {"ap_stop", "sta_start"} THEN c ELSE NoOwner
    /\ UNCHANGED <<flags, event_callback_, components, bringup, monitors>>

StartStation(c) ==
    /\ mutex_ = NoOwner
    /\ LET pc == IF ~initialized_ THEN "done_noinit"
                 ELSE IF station_active_ THEN "done_noop"
                 ELSE IF config_mode_active_ THEN "ap_stop"
                 ELSE "sta_start"
       IN /\ stack' = [stack EXCEPT ![c] = Append(@, Frame("StartStation", pc, "none", <<>>))]
          /\ mutex_' = IF pc \in {"ap_stop", "sta_start"} THEN c ELSE NoOwner
    /\ UNCHANGED <<flags, event_callback_, components, bringup, monitors>>

\* StartStation starting the station before it notifies ConfigModeExit.
StartStation_StopAp_StartFirst(c) ==
    /\ At(c, "StartStation", "ap_stop")
    /\ WifiConfigurationAp_Stop
    /\ config_mode_active_' = FALSE
    /\ WifiStation_Start
    /\ station_active_' = TRUE
    /\ mutex_' = NoOwner
    /\ stack' = [stack EXCEPT ![c] = Append(SetPc(@, "relock_end"), NotifyFrame("ConfigModeExit"))]
    /\ exitOrder' = IF exitOrder = "violated" THEN "violated" ELSE "owed"
    /\ UNCHANGED <<initialized_, event_callback_, bringup, cfgSeq, linkSeq>>
    /\ UNCHANGED <<calls, others>>

\* config_ap_->Stop(); config_mode_active_ = false; unlock; NotifyEvent(ConfigModeExit)
StartStation_StopAp(c) ==
    /\ At(c, "StartStation", "ap_stop")
    /\ WifiConfigurationAp_Stop
    /\ config_mode_active_' = FALSE
    /\ mutex_' = NoOwner
    /\ stack' = [stack EXCEPT ![c] = Append(SetPc(@, "relock"), NotifyFrame("ConfigModeExit"))]
    /\ exitOrder' = IF exitOrder = "violated" THEN "violated" ELSE "owed"
    /\ UNCHANGED <<initialized_, station_active_, event_callback_, sta_registered,
                   was_connected_, bringup, cfgSeq, linkSeq>>
    /\ UNCHANGED <<calls, others>>

\* mutex_.lock() after the notification
StartStation_Relock(c) ==
    /\ At(c, "StartStation", "relock")
    /\ mutex_ = NoOwner
    /\ mutex_' = c
    /\ stack' = [stack EXCEPT ![c] = SetPc(@, "sta_start")]
    /\ UNCHANGED <<flags, event_callback_, components, bringup, monitors>>
    /\ UNCHANGED <<calls, others>>

\* station_->Start(); station_active_ = true; the lock_guard unlocks
StartStation_Start(c) ==
    /\ At(c, "StartStation", "sta_start")
    /\ WifiStation_Start
    /\ station_active_' = TRUE
    /\ mutex_' = NoOwner
    /\ stack' = [stack EXCEPT ![c] = SetPc(@, "done_ok")]
    /\ UNCHANGED <<initialized_, config_mode_active_, event_callback_, ap_running,
                   bringup, monitors>>
    /\ UNCHANGED <<calls, others>>

----------------------------------------------------------------------------
\* WifiManager::StopStation

\* StopStation without its "not active" early return.
StopStation_NoCheck(c) ==
    /\ mutex_ = NoOwner
    /\ stack' = [stack EXCEPT ![c] = Append(@, Frame("StopStation", "sta_stop", "none", <<>>))]
    /\ mutex_' = c
    /\ UNCHANGED <<flags, event_callback_, components, bringup, monitors>>

StopStation(c) ==
    /\ mutex_ = NoOwner
    /\ LET pc == IF ~station_active_ THEN "done_noop" ELSE "sta_stop"
       IN /\ stack' = [stack EXCEPT ![c] = Append(@, Frame("StopStation", pc, "none", <<>>))]
          /\ mutex_' = IF pc = "sta_stop" THEN c ELSE NoOwner
    /\ UNCHANGED <<flags, event_callback_, components, bringup, monitors>>

\* station_->Stop(); station_active_ = false; unlock; NotifyEvent(Disconnected)
StopStation_Stop(c) ==
    /\ At(c, "StopStation", "sta_stop")
    /\ CanUnregister(c)
    /\ WifiStation_Stop
    /\ station_active_' = FALSE
    /\ mutex_' = NoOwner
    /\ stack' = [stack EXCEPT ![c] = Append(SetPc(@, "relock_end"), NotifyFrame("Disconnected"))]
    /\ UNCHANGED <<initialized_, config_mode_active_, event_callback_, ap_running,
                   bringup, monitors>>
    /\ UNCHANGED <<calls, others>>

----------------------------------------------------------------------------
\* WifiManager::StartConfigAp

StartConfigAp(c) ==
    /\ mutex_ = NoOwner
    /\ LET pc == IF ~initialized_ THEN "done_noinit"
                 ELSE IF config_mode_active_ THEN "done_noop"
                 ELSE IF station_active_ THEN "sta_stop"
                 ELSE "ap_start"
       IN /\ stack' = [stack EXCEPT ![c] = Append(@, Frame("StartConfigAp", pc, "none", <<>>))]
          /\ mutex_' = IF pc \in {"sta_stop", "ap_start"} THEN c ELSE NoOwner
    /\ UNCHANGED <<flags, event_callback_, components, bringup, monitors>>

\* station_->Stop(); station_active_ = false; unlock; NotifyEvent(Disconnected)
StartConfigAp_StopStation(c) ==
    /\ At(c, "StartConfigAp", "sta_stop")
    /\ CanUnregister(c)
    /\ WifiStation_Stop
    /\ station_active_' = FALSE
    /\ mutex_' = NoOwner
    /\ stack' = [stack EXCEPT ![c] = Append(SetPc(@, "relock"), NotifyFrame("Disconnected"))]
    /\ UNCHANGED <<initialized_, config_mode_active_, event_callback_, ap_running,
                   bringup, monitors>>
    /\ UNCHANGED <<calls, others>>

\* mutex_.lock() after the notification
StartConfigAp_Relock(c) ==
    /\ At(c, "StartConfigAp", "relock")
    /\ mutex_ = NoOwner
    /\ mutex_' = c
    /\ stack' = [stack EXCEPT ![c] = SetPc(@, "ap_start")]
    /\ UNCHANGED <<flags, event_callback_, components, bringup, monitors>>
    /\ UNCHANGED <<calls, others>>

\* config_ap_->Start(); config_mode_active_ = true; unlock; NotifyEvent(ConfigModeEnter)
StartConfigAp_Start(c) ==
    /\ At(c, "StartConfigAp", "ap_start")
    /\ WifiConfigurationAp_Start
    /\ config_mode_active_' = TRUE
    /\ mutex_' = NoOwner
    /\ stack' = [stack EXCEPT ![c] = Append(SetPc(@, "relock_end"), NotifyFrame("ConfigModeEnter"))]
    /\ UNCHANGED <<initialized_, station_active_, event_callback_, sta_registered,
                   was_connected_, bringup, monitors>>
    /\ UNCHANGED <<calls, others>>

----------------------------------------------------------------------------
\* WifiManager::StopConfigAp

StopConfigAp(c) ==
    /\ mutex_ = NoOwner
    /\ LET pc == IF ~config_mode_active_ THEN "done_noop" ELSE "ap_stop"
       IN /\ stack' = [stack EXCEPT ![c] = Append(@, Frame("StopConfigAp", pc, "none", <<>>))]
          /\ mutex_' = IF pc = "ap_stop" THEN c ELSE NoOwner
    /\ UNCHANGED <<flags, event_callback_, components, bringup, monitors>>

\* config_ap_->Stop(); config_mode_active_ = false; unlock; NotifyEvent(ConfigModeExit)
StopConfigAp_Stop(c) ==
    /\ At(c, "StopConfigAp", "ap_stop")
    /\ WifiConfigurationAp_Stop
    /\ config_mode_active_' = FALSE
    /\ mutex_' = NoOwner
    /\ stack' = [stack EXCEPT ![c] = Append(SetPc(@, "relock_end"), NotifyFrame("ConfigModeExit"))]
    /\ UNCHANGED <<initialized_, station_active_, event_callback_, sta_registered,
                   was_connected_, bringup, monitors>>
    /\ UNCHANGED <<calls, others>>

----------------------------------------------------------------------------
\* The closing mutex_.lock() of StopStation, StartConfigAp and StopConfigAp,
\* released at once by the lock_guard's destructor.
FinalRelock(c) ==
    /\ Busy(c)
    /\ Top(c).pc = "relock_end"
    /\ mutex_ = NoOwner
    /\ stack' = [stack EXCEPT ![c] = SetPc(@, "done_ok")]
    /\ UNCHANGED <<flags, event_callback_, mutex_, components, bringup, monitors>>
    /\ UNCHANGED <<calls, others>>

DonePcs == {"done_noinit", "done_noop", "done_ok", "done_already", "done_true", "done_false"}

\* The method returns to its caller.
Return(c) ==
    /\ Busy(c)
    /\ Top(c).pc \in DonePcs
    /\ stack' = [stack EXCEPT ![c] = Pop(@)]
    /\ UNCHANGED <<flags, event_callback_, mutex_, components, bringup, monitors>>
    /\ UNCHANGED <<calls, others>>


----------------------------------------------------------------------------
\* The driver event task: station event handlers, as far as they emit events
\* through the callbacks StartStation installs (each calls NotifyEvent).

\* WifiEventHandler, WIFI_EVENT_STA_START: on_scan_begin_()
Handler_StaStart ==
    /\ ~Busy(DrvContext)
    /\ sta_registered
    /\ stack' = [stack EXCEPT ![DrvContext] = <<Frame("Handler", "h", "none", <<"Scanning">>)>>]
    /\ UNCHANGED <<flags, event_callback_, mutex_, components, bringup, monitors>>
    /\ UNCHANGED <<calls, others>>

\* WifiEventHandler, WIFI_EVENT_SCAN_DONE with a known network: StartConnect, on_connect_(ssid)
Handler_ScanDone ==
    /\ ~Busy(DrvContext)
    /\ sta_registered
    /\ stack' = [stack EXCEPT ![DrvContext] = <<Frame("Handler", "h", "none", <<"Connecting">>)>>]
    /\ UNCHANGED <<flags, event_callback_, mutex_, components, bringup, monitors>>
    /\ UNCHANGED <<calls, others>>

\* WifiEventHandler, WIFI_EVENT_STA_DISCONNECTED after a connection:
\* on_disconnected_(), then a reconnect or (next) StartConnect, on_connect_(ssid)
Handler_Disconnected(next) ==
    /\ ~Busy(DrvContext)
    /\ sta_registered
    /\ was_connected_
    /\ was_connected_' = FALSE
    /\ stack' = [stack EXCEPT ![DrvContext] =
                   <<Frame("Handler", "h", "none",
                           IF next THEN <<"Disconnected", "Connecting">> ELSE <<"Disconnected">>)>>]
    /\ UNCHANGED <<flags, event_callback_, mutex_, sta_registered, ap_running,
                   bringup, monitors>>
    /\ UNCHANGED <<calls, others>>

\* IpEventHandler, IP_EVENT_STA_GOT_IP: was_connected_ = true; on_connected_(ssid)
Handler_GotIp ==
    /\ ~Busy(DrvContext)
    /\ sta_registered
    /\ was_connected_' = TRUE
    /\ stack' = [stack EXCEPT ![DrvContext] = <<Frame("Handler", "h", "none", <<"Connected">>)>>]
    /\ UNCHANGED <<flags, event_callback_, mutex_, sta_registered, ap_running,
                   bringup, monitors>>
    /\ UNCHANGED <<calls, others>>

\* The handler calls its next lifecycle callback, a lambda calling NotifyEvent.
Handler_Emit(c) ==
    /\ At(c, "Handler", "h")
    /\ Top(c).todo # <<>>
    /\ stack' = [stack EXCEPT ![c] =
                   Append([@ EXCEPT ![Len(@)].todo = Tail(Top(c).todo)],
                          NotifyFrame(Head(Top(c).todo)))]
    /\ UNCHANGED <<flags, event_callback_, mutex_, components, bringup, monitors>>
    /\ UNCHANGED <<calls, others>>

\* The handler returns: the event task releases the loop lock.
Handler_Return(c) ==
    /\ At(c, "Handler", "h")
    /\ Top(c).todo = <<>>
    /\ stack' = [stack EXCEPT ![c] = Pop(@)]
    /\ UNCHANGED <<flags, event_callback_, mutex_, components, bringup, monitors>>
    /\ UNCHANGED <<calls, others>>

----------------------------------------------------------------------------
\* Who calls the orchestrator

\* An application task outside any call.
Idle(c) == c \in AppContexts /\ ~Busy(c)

\* The event callback is running in c and may still re-enter.
InCallback(c) == At(c, "NotifyEvent", "cb") /\ CbDepth(c) <= MaxDepth

\* One more call of the public interface.
Counted == calls < MaxCalls /\ calls' = calls + 1 /\ UNCHANGED others

App_Initialize(c) == Idle(c) /\ Counted /\ Initialize(c)
App_SetEventCallback(c) == Idle(c) /\ Counted /\ \E cb \in BOOLEAN : SetEventCallback(c, cb)
App_StartStation(c) == Idle(c) /\ Counted /\ StartStation(c)
App_StopStation(c) == Idle(c) /\ Counted /\ StopStation(c)
App_StartConfigAp(c) == Idle(c) /\ Counted /\ StartConfigAp(c)
App_StopConfigAp(c) == Idle(c) /\ Counted /\ StopConfigAp(c)

\* Calls from application tasks.
AppCall(c) ==
    \/ App_Initialize(c)
    \/ App_SetEventCallback(c)
    \/ App_StartStation(c)
    \/ App_StopStation(c)
    \/ App_StartConfigAp(c)
    \/ App_StopConfigAp(c)

Cb_StartStation(c) == InCallback(c) /\ Counted /\ StartStation(c)
Cb_StopStation(c) == InCallback(c) /\ Counted /\ StopStation(c)
Cb_StartConfigAp(c) == InCallback(c) /\ Counted /\ StartConfigAp(c)
Cb_StopConfigAp(c) == InCallback(c) /\ Counted /\ StopConfigAp(c)

\* Calls from inside the event callback.
Reenter(c) ==
    \/ Cb_StartStation(c)
    \/ Cb_StopStation(c)
    \/ Cb_StartConfigAp(c)
    \/ Cb_StopConfigAp(c)

\* The steps inside the calls.
Step(c) ==
    \/ NotifyEvent_Copy(c)
    \/ NotifyEvent_Invoke(c)
    \/ Callback_Return(c)
    \/ StartStation_StopAp(c)
    \/ StartStation_Relock(c)
    \/ StartStation_Start(c)
    \/ StopStation_Stop(c)
    \/ StartConfigAp_StopStation(c)
    \/ StartConfigAp_Relock(c)
    \/ StartConfigAp_Start(c)
    \/ StopConfigAp_Stop(c)
    \/ FinalRelock(c)
    \/ Return(c)
    \/ Handler_Emit(c)
    \/ Handler_Return(c)

\* The event task takes the next driver event.
Dispatch ==
    \/ Handler_StaStart
    \/ Handler_ScanDone
    \/ \E next \in BOOLEAN : Handler_Disconnected(next)
    \/ Handler_GotIp

Next ==
    \/ \E c \in Contexts : AppCall(c) \/ Reenter(c) \/ Step(c)
    \/ Dispatch

Spec == Init /\ [][Next]_vars

\* One caller at a time, and a callback that does not re-enter.
NextSeq ==
    \/ \E c \in SeqContexts : AppCall(c) \/ Step(c)
    \/ Dispatch

SpecSeq == Init /\ [][NextSeq]_vars


----------------------------------------------------------------------------
\* Properties of the orchestrator

\* c has just made a call of op: its stack grew by a frame of op.
NewCall(c, op) ==
    /\ Len(stack'[c]) = Len(stack[c]) + 1
    /\ stack'[c][Len(stack'[c])].op = op

\* The pc at which the call c has just made starts.
NewPc(c) == stack'[c][Len(stack'[c])].pc

\* c moved, and all it did was return from the frame on top of its stack.
OnlyReturns(c) ==
    /\ stack'[c] = Pop(stack[c])
    /\ UNCHANGED <<flags, event_callback_, mutex_, components, bringup, monitors>>

\* c waits for the mutex, or for the event loop's lock, and cannot take it.
Blocked(c) ==
    /\ Busy(c)
    /\ \/ Top(c).pc \in {"ne_lock", "relock", "relock_end"} /\ mutex_ # NoOwner
       \/ Top(c).pc = "sta_stop" /\ ~CanUnregister(c)

\* A component Start() or Stop() is executing in c on behalf of the orchestrator.
InComponentOp(c) ==
    Busy(c) /\ Top(c).pc \in {"sta_start", "sta_stop", "ap_start", "ap_stop"}

\* C1: station_active_ and config_mode_active_ are never both true, for any
\* interleaving of the four mode calls from several contexts and from inside
\* the event callback.
C1_ModeExclusive == ~(station_active_ /\ config_mode_active_)

\* C2: with one caller at a time and no re-entry, after each StartStation or
\* StartConfigAp call on an initialized orchestrator at most one mode flag is
\* true, the requested mode is the active one, and the opposite component was
\* stopped before the requested one is started.
C2_SequentialExclusive ==
    /\ ~(station_active_ /\ config_mode_active_)
    /\ ~(sta_registered /\ ap_running)
    /\ \A c \in Contexts :
         /\ At(c, "StartStation", "sta_start") => ~ap_running /\ ~config_mode_active_
         /\ At(c, "StartConfigAp", "ap_start") => ~sta_registered /\ ~station_active_
         /\ (At(c, "StartStation", "done_ok") \/ At(c, "StartStation", "done_noop"))
              => station_active_ /\ sta_registered /\ ~config_mode_active_
         /\ (At(c, "StartConfigAp", "done_ok") \/ At(c, "StartConfigAp", "done_noop"))
              => config_mode_active_ /\ ap_running /\ ~station_active_

\* C2 witness: a StartStation that found the configuration AP active has returned.
C2_Witness ==
    /\ At("app1", "StartStation", "done_ok")
    /\ exitOrder = "delivered"
    /\ station_active_

\* C3: no deadlock: whenever some call or handler is in progress, one of those
\* in progress can take a step, so that each of them can eventually return.
C3_NoDeadlock ==
    (\E c \in Contexts : Busy(c)) => (\E c \in Contexts : Busy(c) /\ ~Blocked(c))

\* C4: while the event callback executes (and from the moment NotifyEvent is
\* entered), the invoking context does not hold the orchestrator's mutex.
C4_CallbackUnlocked ==
    \A c \in Contexts : (Busy(c) /\ Top(c).op = "NotifyEvent") => mutex_ # c

\* C4 witness: the callback runs in one context while another holds the mutex.
C4_Witness ==
    \E c \in Contexts :
        /\ At(c, "NotifyEvent", "cb")
        /\ Top(c).ev = "ConfigModeExit"
        /\ mutex_ \notin {NoOwner, c}

\* C5: the mutex is free in every state in which a component Start() or Stop()
\* is executing on behalf of the orchestrator.
C5_DriverOpsUnlocked ==
    \A c \in Contexts : InComponentOp(c) => mutex_ = NoOwner

\* C6: when StartStation stops the configuration AP, ConfigModeExit is
\* delivered before any Scanning, Connecting or Connected event.
C6_ExitBeforeStationEvents == exitOrder # "violated"

\* C6 witness: a station event was delivered after that ConfigModeExit.
C6_Witness == exitOrder = "station_after_exit" /\ station_active_

\* C7: the delivered ConfigModeEnter and ConfigModeExit events strictly
\* alternate, starting with ConfigModeEnter.
C7_CfgEventsAlternate == cfgSeq # "bad"

\* C8: StartStation while station_active_ and StartConfigAp while
\* config_mode_active_ change no flag, call no component operation and emit
\* no event: the call goes straight to its return.
C8_RestartIsNoOp ==
    [][\A c \in Contexts :
         /\ (NewCall(c, "StartStation") /\ station_active_)
              => (NewPc(c) = "done_noop"
                  /\ UNCHANGED <<flags, event_callback_, mutex_, components, bringup, monitors>>)
         /\ (NewCall(c, "StartConfigAp") /\ config_mode_active_)
              => (NewPc(c) = "done_noop"
                  /\ UNCHANGED <<flags, event_callback_, mutex_, components, bringup, monitors>>)
         /\ ((At(c, "StartStation", "done_noop") \/ At(c, "StartConfigAp", "done_noop"))
               /\ stack'[c] # stack[c])
              => OnlyReturns(c)]_vars

\* C8 witness: both kinds of repeated start have happened.
C8_Witness ==
    /\ At("app1", "StartStation", "done_noop")
    /\ At("app2", "StartConfigAp", "done_noop")

\* C9: StopStation while station is not active and StopConfigAp while the
\* configuration mode is not active change nothing and emit nothing; a Stop
\* that has run leaves its mode inactive, so a second Stop in a row does nothing.
C9_StopIsIdempotent ==
    /\ [](\A c \in Contexts :
            /\ (Busy(c) /\ Top(c).op = "StopStation" /\ Top(c).pc \in DonePcs)
                 => ~station_active_ /\ ~sta_registered
            /\ (Busy(c) /\ Top(c).op = "StopConfigAp" /\ Top(c).pc \in DonePcs)
                 => ~config_mode_active_ /\ ~ap_running)
    /\ [][\A c \in Contexts :
            /\ (NewCall(c, "StopStation") /\ ~station_active_)
                 => (NewPc(c) = "done_noop"
                     /\ UNCHANGED <<flags, event_callback_, mutex_, components, bringup, monitors>>)
            /\ (NewCall(c, "StopConfigAp") /\ ~config_mode_active_)
                 => (NewPc(c) = "done_noop"
                     /\ UNCHANGED <<flags, event_callback_, mutex_, components, bringup, monitors>>)
            /\ ((At(c, "StopStation", "done_noop") \/ At(c, "StopConfigAp", "done_noop"))
                  /\ stack'[c] # stack[c])
                 => OnlyReturns(c)]_vars

\* C9 witness: StopConfigAp called a second time in a row (the fourth call,
\* after Initialize, StartConfigAp and the StopConfigAp that emitted ConfigModeExit).
C9_Witness ==
    /\ At("app1", "StopConfigAp", "done_noop")
    /\ cfgSeq = "Exit"
    /\ ~station_active_
    /\ calls = 4

\* C10: the driver is initialized and the components are constructed at most
\* once; Initialize after a success returns true and touches nothing; a failed
\* bring-up returns false and leaves initialized_ false, and while initialized_
\* is false StartStation and StartConfigAp do nothing.
C10_InitializeOnce ==
    /\ [](/\ wifi_inits <= 1
          /\ constructed <= 1
          /\ initialized_ <=> (wifi_inits = 1 /\ constructed = 1)
          /\ ~initialized_ => ~station_active_ /\ ~config_mode_active_
                              /\ ~sta_registered /\ ~ap_running)
    /\ [][\A c \in Contexts :
            /\ NewCall(c, "Initialize") =>
                 /\ UNCHANGED <<station_active_, config_mode_active_, components, mutex_>>
                 /\ IF initialized_
                    THEN NewPc(c) = "done_already" /\ UNCHANGED <<initialized_, bringup>>
                    ELSE \/ /\ NewPc(c) = "done_true"
                            /\ initialized_'
                            /\ wifi_inits' = wifi_inits + 1
                            /\ constructed' = constructed + 1
                         \/ /\ NewPc(c) = "done_false"
                            /\ ~initialized_'
                            /\ UNCHANGED bringup
            /\ ((NewCall(c, "StartStation") \/ NewCall(c, "StartConfigAp")) /\ ~initialized_)
                 => (NewPc(c) = "done_noinit"
                     /\ UNCHANGED <<flags, event_callback_, mutex_, components, bringup, monitors>>)]_vars

\* C10 witness: one Initialize failed, a later one succeeded, and a third
\* found the orchestrator initialized.
C10_Witness ==
    /\ At("app1", "Initialize", "done_false")
    /\ At("app2", "Initialize", "done_already")
    /\ wifi_inits = 1

----------------------------------------------------------------------------
\* Part 2: WifiStation.  Its owner (WifiManager::StartStation and the Stop
\* calls) configures, starts and stops it; the event task runs its handlers,
\* each to completion (unregistering a handler waits for the one that runs);
\* the timer task runs the rescan callback; another task may block in
\* WaitForConnected.

\* What the station's steps leave alone.
manager == <<initialized_, station_active_, config_mode_active_, event_callback_,
             mutex_, ap_running, stack, wifi_inits, constructed, calls,
             exitOrder, cfgSeq, linkSeq, ap>>

Min(a, b) == IF a < b THEN a ELSE b

\* The results a scan can deliver: each reported network with its rssi.
Scans ==
    UNION {[S -> Rssis] : S \in {T \in SUBSET Ssids : Cardinality(T) <= MaxAps}}

\* All orders of the networks in S.
Orderings(S) ==
    {f \in [1..Cardinality(S) -> S] :
        \A i, j \in 1..Cardinality(S) : i # j => f[i] # f[j]}

\* std::sort by rssi descending: any order in which no record precedes a
\* stronger one (records of equal rssi come in either order).
SortedByRssi(scan) ==
    {f \in Orderings(DOMAIN scan) :
        \A i, j \in DOMAIN f : i < j => scan[f[i]] >= scan[f[j]]}

\* std::find_if over ssid_list: the scanned ssid has stored credentials.
IsKnown(ssid) == ssid \in KnownSsids

\* WifiStation::SetScanIntervalRange
SetScanIntervalRange(s, min_interval_seconds, max_interval_seconds) ==
    [s EXCEPT !.scan_min_interval_microseconds_ = MicroSeconds(min_interval_seconds),
              !.scan_max_interval_microseconds_ = MicroSeconds(max_interval_seconds),
              !.scan_current_interval_microseconds_ = MicroSeconds(min_interval_seconds)]

\* WifiStation::UpdateScanInterval
UpdateScanInterval(s) ==
    IF s.scan_current_interval_microseconds_ < s.scan_max_interval_microseconds_
    THEN LET doubled == Double32(s.scan_current_interval_microseconds_)
         IN [s EXCEPT !.scan_current_interval_microseconds_ =
                          IF doubled > s.scan_max_interval_microseconds_
                          THEN s.scan_max_interval_microseconds_
                          ELSE doubled]
    ELSE s

\* esp_timer_start_once(timer_handle_, ...): arms a timer that exists and is
\* not armed, and fails otherwise.
TimerStartOnce(s) ==
    IF s.timer_handle_ = "idle" THEN [s EXCEPT !.timer_handle_ = "armed"] ELSE s

\* WifiStation::StartConnect: takes the front of the queue and asks the driver
\* to connect to it.
StartConnect(s) ==
    [s EXCEPT !.ssid_ = Head(s.connect_queue_),
              !.connect_queue_ = Tail(s.connect_queue_),
              !.reconnect_count_ = 0,
              !.radio = "connecting"]

\* WifiStation::HandleScanResult, up to the end of the loop over the records:
\* the known networks are appended to connect_queue_ in sorted order.
QueueAfterScan(s, order) == s.connect_queue_ \o SelectSeq(order, IsKnown)

\* Stop() has returned and Start() was not called since.
Stopped == ctl.pc = "stopped"

\* xEventGroupSetBits wakes a task blocked in xEventGroupWaitBits on one of
\* the bits; the task gets the bits as they are at that moment.
Wakes(bits) == ctl.waiter = "blocked" /\ bits \cap {"CONNECTED", "STOPPED"} # {}
CtlAfterSet(bits) == IF Wakes(bits) THEN [ctl EXCEPT !.waiter = "idle"] ELSE ctl
WaitAfterSet(bits) ==
    IF Wakes(bits)
    THEN [result |-> IF "CONNECTED" \in bits THEN "true" ELSE "false",
          cause |-> "bits", bits |-> bits \cap {"CONNECTED", "STOPPED"}, at |-> ctl.pc]
    ELSE obs.wait

\* A Start() that leaves the STOPPED bit as it finds it.
StationStart_KeepStopped ==
    /\ ctl.pc \in {"new", "stopped"}
    /\ ctl.starts < MaxStarts
    /\ sta_registered' = TRUE
    /\ sta' = [SetScanIntervalRange(sta, ctl.config_[1], ctl.config_[2])
                 EXCEPT !.event_group_ = @ \ {"SCAN_DONE"},
                        !.instance_got_ip_ = TRUE,
                        !.radio = "starting"]
    /\ ctl' = [ctl EXCEPT !.pc = "start_timer", !.starts = @ + 1]
    /\ obs' = [NoObs EXCEPT !.event = "Start", !.late = obs.late, !.wait = obs.wait]
    /\ UNCHANGED <<was_connected_, manager, dns>>

\* WifiManager::StartStation from SetScanIntervalRange on: the range is
\* applied, the callbacks are installed and WifiStation::Start() runs up to
\* esp_wifi_start: the bits are cleared, both handlers are registered and the
\* radio is started.
StationStart ==
    /\ ctl.pc \in {"new", "stopped"}
    /\ ctl.starts < MaxStarts
    /\ sta_registered' = TRUE
    /\ sta' = [SetScanIntervalRange(sta, ctl.config_[1], ctl.config_[2])
                 EXCEPT !.event_group_ = @ \ {"STOPPED", "SCAN_DONE"},
                        !.instance_got_ip_ = TRUE,
                        !.radio = "starting"]
    /\ ctl' = [ctl EXCEPT !.pc = "start_timer", !.starts = @ + 1]
    /\ obs' = [NoObs EXCEPT !.event = "Start", !.late = obs.late, !.wait = obs.wait]
    /\ UNCHANGED <<was_connected_, manager, dns>>

\* ... esp_timer_create, and Start() returns
StationStart_Timer ==
    /\ ctl.pc = "start_timer"
    /\ sta' = [sta EXCEPT !.timer_handle_ = "idle"]
    /\ ctl' = [ctl EXCEPT !.pc = "started"]
    /\ UNCHANGED <<sta_registered, was_connected_, obs, manager, dns>>

\* WifiStation::Stop(), first step: the WIFI_EVENT handler is unregistered.
StationStop_AnyId ==
    /\ ctl.pc = "started"
    /\ sta_registered' = FALSE
    /\ ctl' = [ctl EXCEPT !.pc = "stop_got_ip"]
    /\ obs' = [obs EXCEPT !.event = "Stop", !.cbs = <<>>, !.scan = <<>>]
    /\ UNCHANGED <<sta, was_connected_, manager, dns>>

\* ... the IP_EVENT handler is unregistered
StationStop_GotIp ==
    /\ ctl.pc = "stop_got_ip"
    /\ sta' = [sta EXCEPT !.instance_got_ip_ = FALSE]
    /\ ctl' = [ctl EXCEPT !.pc = "stop_timer"]
    /\ UNCHANGED <<sta_registered, was_connected_, obs, manager, dns>>

\* A Stop that leaves the rescan timer as it is.
StationStop_KeepTimer ==
    /\ ctl.pc = "stop_timer"
    /\ ctl' = [ctl EXCEPT !.pc = "stop_radio"]
    /\ UNCHANGED <<sta, sta_registered, was_connected_, obs, manager, dns>>

\* ... esp_timer_stop, esp_timer_delete, timer_handle_ = nullptr
StationStop_Timer ==
    /\ ctl.pc = "stop_timer"
    /\ sta' = [sta EXCEPT !.timer_handle_ = "null"]
    /\ ctl' = [ctl EXCEPT !.pc = "stop_radio"]
    /\ UNCHANGED <<sta_registered, was_connected_, obs, manager, dns>>

\* ... esp_wifi_scan_stop, esp_wifi_disconnect, esp_wifi_stop, the interface destroyed
StationStop_Radio ==
    /\ ctl.pc = "stop_radio"
    /\ sta' = [sta EXCEPT !.radio = "off"]
    /\ ctl' = [ctl EXCEPT !.pc = "stop_flags"]
    /\ UNCHANGED <<sta_registered, was_connected_, obs, manager, dns>>

\* A Stop that resets was_connected_ but leaves the CONNECTED bit set.
StationStop_KeepConnected ==
    /\ ctl.pc = "stop_flags"
    /\ was_connected_' = FALSE
    /\ ctl' = [ctl EXCEPT !.pc = "stop_set"]
    /\ obs' = [obs EXCEPT !.link = FALSE]
    /\ UNCHANGED <<sta, sta_registered, manager, dns>>

\* ... was_connected_ = false, the CONNECTED bit cleared
StationStop_Flags ==
    /\ ctl.pc = "stop_flags"
    /\ was_connected_' = FALSE
    /\ sta' = [sta EXCEPT !.event_group_ = @ \ {"CONNECTED"}]
    /\ ctl' = [ctl EXCEPT !.pc = "stop_set"]
    /\ obs' = [obs EXCEPT !.link = FALSE]
    /\ UNCHANGED <<sta_registered, manager, dns>>

\* ... the STOPPED bit set, and Stop() returns
StationStop_SetStopped ==
    /\ ctl.pc = "stop_set"
    /\ LET bits == sta.event_group_ \cup {"STOPPED"}
       IN /\ sta' = [sta EXCEPT !.event_group_ = bits]
          /\ ctl' = [CtlAfterSet(bits) EXCEPT !.pc = "stopped"]
          /\ obs' = [obs EXCEPT !.event = "Stop", !.cbs = <<>>, !.scan = <<>>,
                                !.wait = WaitAfterSet(bits)]
    /\ UNCHANGED <<sta_registered, was_connected_, manager, dns>>

\* WifiStation::WaitForConnected is called: it returns at once when one of
\* the two bits is set, and blocks otherwise.
WaitForConnected_Call ==
    /\ ctl.waiter = "idle"
    /\ IF sta.event_group_ \cap {"CONNECTED", "STOPPED"} # {}
       THEN /\ obs' = [obs EXCEPT !.wait =
                         [result |-> IF "CONNECTED" \in sta.event_group_ THEN "true" ELSE "false",
                          cause |-> "immediate",
                          bits |-> sta.event_group_ \cap {"CONNECTED", "STOPPED"}, at |-> "none"]]
            /\ UNCHANGED ctl
       ELSE /\ ctl' = [ctl EXCEPT !.waiter = "blocked"]
            /\ obs' = [obs EXCEPT !.wait = NoWait]
    /\ UNCHANGED <<sta, sta_registered, was_connected_, manager, dns>>

\* The timeout of xEventGroupWaitBits elapses.
WaitForConnected_Timeout ==
    /\ ctl.waiter = "blocked"
    /\ ctl' = [ctl EXCEPT !.waiter = "idle"]
    /\ obs' = [obs EXCEPT !.wait =
                 [result |-> IF "CONNECTED" \in sta.event_group_ THEN "true" ELSE "false",
                  cause |-> "timeout",
                  bits |-> sta.event_group_ \cap {"CONNECTED", "STOPPED"}, at |-> "none"]]
    /\ UNCHANGED <<sta, sta_registered, was_connected_, manager, dns>>

\* WifiEventHandler, WIFI_EVENT_STA_START: the first scan is started.
WifiEventHandler_StaStart ==
    /\ sta_registered
    /\ sta.radio = "starting"
    /\ sta' = [sta EXCEPT !.radio = "scanning"]
    /\ obs' = [obs EXCEPT !.event = "STA_START",
                          !.cbs = <<(<<"scan_begin", "">>)>>,
                          !.was_up = obs.link,
                          !.late = @ \/ Stopped]
    /\ UNCHANGED <<sta_registered, was_connected_, ctl, manager, dns>>

\* WifiEventHandler, WIFI_EVENT_SCAN_DONE: HandleScanResult on the records of
\* scan, which std::sort has put in the order given.
WifiEventHandler_ScanDone(scan, order) ==
    /\ sta_registered
    /\ sta.radio = "scanning"
    /\ order \in SortedByRssi(scan)
    /\ LET s0 == [sta EXCEPT !.event_group_ = @ \cup {"SCAN_DONE"},
                             !.connect_queue_ = QueueAfterScan(sta, order)]
           seen == [obs EXCEPT !.event = "SCAN_DONE", !.scan = scan,
                               !.built = s0.connect_queue_,
                               !.was_up = obs.link,
                               !.late = @ \/ Stopped]
       IN IF s0.connect_queue_ = <<>>
          THEN /\ sta' = UpdateScanInterval(TimerStartOnce([s0 EXCEPT !.radio = "idle"]))
               /\ obs' = [seen EXCEPT !.cbs = <<>>,
                                      !.delay = s0.scan_current_interval_microseconds_,
                                      !.fails = Min(@ + 1, MaxFails)]
          ELSE /\ sta' = StartConnect(s0)
               /\ obs' = [seen EXCEPT !.cbs = <<(<<"connect", Head(s0.connect_queue_)>>)>>,
                                      !.reconnects = 0, !.streak = 0, !.discs = 0,
                                      !.tried = Head(s0.connect_queue_),
                                      !.request = Head(s0.connect_queue_),
                                      !.advanced_after = 0]
    /\ UNCHANGED <<sta_registered, was_connected_, ctl, manager, dns>>

\* The reconnect test with the bound included.
MayReconnect_Inclusive(s) == s.reconnect_count_ <= MAX_RECONNECT_COUNT

\* reconnect_count_ < MAX_RECONNECT_COUNT
MayReconnect(s) == s.reconnect_count_ < MAX_RECONNECT_COUNT

\* The reconnect without the count.
Reconnect_NoCount(s) == [s EXCEPT !.radio = "connecting"]

\* esp_wifi_connect(); reconnect_count_++
Reconnect(s) == [s EXCEPT !.reconnect_count_ = @ + 1, !.radio = "connecting"]

\* WifiEventHandler, WIFI_EVENT_STA_DISCONNECTED: a connect attempt failed or
\* the connection was lost.
\* The level-triggered variant: the callback on every Disconnected event.
DisconnectedCallbacks_Level(was) == <<(<<"disconnected", "">>)>>

\* The callbacks of a Disconnected event: on_disconnected_ only when the
\* station was connected.
DisconnectedCallbacks(was) == IF was THEN <<(<<"disconnected", "">>)>> ELSE <<>>

WifiEventHandler_Disconnected ==
    /\ sta_registered
    /\ sta.radio \in {"connecting", "online"}
    /\ was_connected_' = FALSE
    /\ LET s0 == [sta EXCEPT !.event_group_ = @ \ {"CONNECTED"}]
           fired == DisconnectedCallbacks(was_connected_)
           seen == [obs EXCEPT !.event = "STA_DISCONNECTED", !.scan = <<>>,
                               !.was_up = obs.link, !.link = FALSE,
                               !.since_ip = IF @ < 0 \/ @ > MAX_RECONNECT_COUNT
                                            THEN -1 ELSE @ + 1,
                               !.late = @ \/ Stopped]
       IN IF MayReconnect(s0)
          THEN /\ sta' = Reconnect(s0)
               /\ obs' = [seen EXCEPT !.cbs = fired,
                                      !.reconnects = Min(@ + 1, MAX_RECONNECT_COUNT + 1),
                                      !.streak = @ + 1,
                                      !.discs = @ + 1,
                                      !.request = s0.ssid_]
          ELSE IF s0.connect_queue_ # <<>>
          THEN /\ sta' = StartConnect(s0)
               /\ obs' = [seen EXCEPT !.cbs = fired \o <<(<<"connect", Head(s0.connect_queue_)>>)>>,
                                      !.reconnects = 0, !.streak = 0,
                                      !.advanced_after = obs.discs + 1,
                                      !.discs = 0,
                                      !.tried = Head(s0.connect_queue_),
                                      !.request = Head(s0.connect_queue_)]
          ELSE /\ sta' = UpdateScanInterval(TimerStartOnce([s0 EXCEPT !.radio = "idle"]))
               /\ obs' = [seen EXCEPT !.cbs = fired,
                                      !.delay = s0.scan_current_interval_microseconds_,
                                      !.fails = Min(@ + 1, MaxFails),
                                      !.discs = 0]
    /\ UNCHANGED <<sta_registered, ctl, manager, dns>>

\* A got-address handler that leaves the scan interval where the backoff put it.
IpEventHandler_KeepInterval ==
    /\ sta.instance_got_ip_
    /\ sta.radio \in {"connecting", "online"}
    /\ was_connected_' = TRUE
    /\ LET bits == sta.event_group_ \cup {"CONNECTED"}
       IN /\ sta' = [sta EXCEPT !.event_group_ = bits,
                                !.connect_queue_ = <<>>,
                                !.reconnect_count_ = 0,
                                !.radio = "online"]
          /\ ctl' = CtlAfterSet(bits)
          /\ obs' = [obs EXCEPT !.event = "GOT_IP", !.scan = <<>>,
                                !.cbs = <<(<<"connected", sta.ssid_>>)>>,
                                !.was_up = obs.link, !.link = TRUE,
                                !.fails = 0, !.streak = 0, !.discs = 0,
                                !.since_ip = 0,
                                !.late = @ \/ Stopped,
                                !.wait = WaitAfterSet(bits)]
    /\ UNCHANGED <<sta_registered, manager, dns>>

\* IpEventHandler, IP_EVENT_STA_GOT_IP
IpEventHandler ==
    /\ sta.instance_got_ip_
    /\ sta.radio \in {"connecting", "online"}
    /\ was_connected_' = TRUE
    /\ LET bits == sta.event_group_ \cup {"CONNECTED"}
       IN /\ sta' = [sta EXCEPT !.event_group_ = bits,
                                !.connect_queue_ = <<>>,
                                !.reconnect_count_ = 0,
                                !.scan_current_interval_microseconds_ =
                                    sta.scan_min_interval_microseconds_,
                                !.radio = "online"]
          /\ ctl' = CtlAfterSet(bits)
          /\ obs' = [obs EXCEPT !.event = "GOT_IP", !.scan = <<>>,
                                !.cbs = <<(<<"connected", sta.ssid_>>)>>,
                                !.was_up = obs.link, !.link = TRUE,
                                !.fails = 0, !.streak = 0, !.discs = 0,
                                !.since_ip = 0,
                                !.late = @ \/ Stopped,
                                !.wait = WaitAfterSet(bits)]
    /\ UNCHANGED <<sta_registered, manager, dns>>

\* The rescan timer expires: its callback calls esp_wifi_scan_start, which
\* starts a scan when the radio is started and has nothing else to do.
TimerCallback ==
    /\ sta.timer_handle_ = "armed"
    /\ sta' = [sta EXCEPT !.timer_handle_ = "idle",
                          !.radio = IF @ = "idle" THEN "scanning" ELSE @]
    /\ obs' = [obs EXCEPT !.event = "TIMER", !.cbs = <<>>, !.scan = <<>>,
                          !.was_up = obs.link,
                          !.late = @ \/ Stopped]
    /\ UNCHANGED <<sta_registered, was_connected_, ctl, manager, dns>>

\* The driver reports the end of the scan in progress.
ScanCompletes ==
    \E scan \in Scans : \E order \in Orderings(DOMAIN scan) :
        WifiEventHandler_ScanDone(scan, order)

\* The driver reports how the connect attempt in progress ended.
ConnectOutcome ==
    /\ sta.radio = "connecting"
    /\ (WifiEventHandler_Disconnected \/ IpEventHandler)

NextStation ==
    \/ StationStart
    \/ StationStart_Timer
    \/ StationStop_AnyId
    \/ StationStop_GotIp
    \/ StationStop_Timer
    \/ StationStop_Radio
    \/ StationStop_Flags
    \/ StationStop_SetStopped
    \/ WifiEventHandler_StaStart
    \/ ScanCompletes
    \/ WifiEventHandler_Disconnected
    \/ IpEventHandler
    \/ TimerCallback

InitStation ==
    /\ ManagerInit
    /\ sta = NewStation
    /\ ctl \in {NewControl(range) : range \in ScanRanges}
    /\ obs = NoObs
    /\ dns = NewDns
    /\ ap = NewAp

SpecStation == InitStation /\ [][NextStation]_vars

\* The station with a task that calls WifiStation::WaitForConnected.
NextWait ==
    \/ NextStation
    \/ WaitForConnected_Call
    \/ WaitForConnected_Timeout

SpecWait == InitStation /\ [][NextWait]_vars

\* The driver ends every scan and every connect attempt, the event task
\* delivers every event and the timer task every expiry.
SpecStationFair ==
    /\ SpecStation
    /\ WF_vars(WifiEventHandler_StaStart)
    /\ WF_vars(ScanCompletes)
    /\ WF_vars(ConnectOutcome)
    /\ WF_vars(TimerCallback)

----------------------------------------------------------------------------
\* Properties of the station

\* The configured scan intervals, in seconds.
MinSeconds == ctl.config_[1]
MaxSeconds == ctl.config_[2]

\* The delay the k-th consecutive failed scan cycle is to use, in seconds.
BackoffSeconds(k) == Min(MinSeconds * 2 ^ (k - 1), MaxSeconds)

\* A rescan was scheduled and its timer has not expired yet.
RescanPending == sta.timer_handle_ = "armed"

\* C11: the k-th consecutive failed scan cycle schedules its rescan after
\* min(min_interval * 2^(k-1), max_interval); once it has, the current interval
\* is min(2 * that delay, max_interval); a got-address event resets the current
\* interval to min_interval.
C11_Backoff ==
    /\ (obs.fails \in 1..(MaxFails - 1)) =>
          /\ obs.delay % 1000000 = 0
          /\ obs.delay \div 1000000 = BackoffSeconds(obs.fails)
    /\ (RescanPending /\ obs.fails \in 1..(MaxFails - 1)) =>
          /\ sta.scan_current_interval_microseconds_ % 1000000 = 0
          /\ sta.scan_current_interval_microseconds_ \div 1000000
                = Min(2 * BackoffSeconds(obs.fails), MaxSeconds)
    /\ obs.event = "GOT_IP" =>
          sta.scan_current_interval_microseconds_ \div 1000000 = MinSeconds

\* C12, as claimed: reconnect_count_ stays in 0..5, and from the connect
\* request StartConnect issues for a candidate to the next advance or rescan
\* the Disconnected handler issues at most 5 reconnect requests.
C12_ReconnectTotal ==
    /\ sta.reconnect_count_ \in 0..MAX_RECONNECT_COUNT
    /\ obs.reconnects <= MAX_RECONNECT_COUNT

\* C12, amended: reconnect_count_ stays in 0..5, and the Disconnected handler
\* issues at most 5 reconnect requests in a row for a candidate, counted from
\* StartConnect's request or from the last got-address event, before the
\* station advances to the next candidate or schedules a rescan.
C12_ReconnectBound ==
    /\ sta.reconnect_count_ \in 0..MAX_RECONNECT_COUNT
    /\ obs.streak <= MAX_RECONNECT_COUNT
    /\ (obs.streak = MAX_RECONNECT_COUNT /\ sta.radio = "connecting")
          => ~MayReconnect(sta)

\* C12 witness: the fifth reconnect request in a row is outstanding, after a
\* connection to the candidate had succeeded and was lost.
C12_Witness ==
    /\ obs.streak = MAX_RECONNECT_COUNT
    /\ obs.reconnects > MAX_RECONNECT_COUNT
    /\ sta.radio = "connecting"

KnownIn(scan) == {ssid \in DOMAIN scan : IsKnown(ssid)}

\* C14: each time ScanDone is handled, the candidate queue built consists of
\* exactly the networks of that scan with stored credentials, strongest first,
\* and when it is not empty the connect request and the Connecting callback
\* are for the strongest of them.
C14_QueueFromScan ==
    obs.event = "SCAN_DONE" =>
        /\ Len(obs.built) = Cardinality(KnownIn(obs.scan))
        /\ {obs.built[i] : i \in DOMAIN obs.built} = KnownIn(obs.scan)
        /\ \A i, j \in DOMAIN obs.built :
              i < j => obs.scan[obs.built[i]] >= obs.scan[obs.built[j]]
        /\ obs.built # <<>> =>
              /\ sta.ssid_ = obs.built[1]
              /\ obs.request = sta.ssid_
              /\ obs.cbs = <<(<<"connect", sta.ssid_>>)>>
              /\ \A ssid \in KnownIn(obs.scan) : obs.scan[sta.ssid_] >= obs.scan[ssid]

\* How many times the handler of the last event invoked on_disconnected_.
DisconnectedFired == Cardinality({i \in DOMAIN obs.cbs : obs.cbs[i][1] = "disconnected"})

\* C15: the Disconnected callback fires exactly once in the handler of a
\* driver Disconnected event that ends a connection (the link was up since a
\* got-address event), not at all for a Disconnected event received while the
\* link is down, and in no other handler; the flag it is derived from is set
\* exactly while the Connected bit is.
C15_EdgeTriggered ==
    /\ DisconnectedFired =
          (IF obs.event = "STA_DISCONNECTED" /\ obs.was_up THEN 1 ELSE 0)
    /\ was_connected_ <=> ("CONNECTED" \in sta.event_group_)

\* A Disconnected event ended a connection and the callback fired.
C15_Witness ==
    /\ obs.event = "STA_DISCONNECTED"
    /\ obs.was_up
    /\ obs.cbs = <<(<<"disconnected", "">>)>>

\* C16: once Stop() has returned and until the next Start(), no handler of
\* the station and no rescan-timer callback runs and no lifecycle callback is
\* invoked: the last thing that happened is the return of Stop, nothing that
\* could run is left registered or armed, and no handler has ever run in a
\* stopped station.
C16_QuietAfterStop ==
    /\ ~obs.late
    /\ Stopped =>
          /\ obs.event = "Stop"
          /\ obs.cbs = <<>>
          /\ ~sta_registered
          /\ ~sta.instance_got_ip_
          /\ sta.timer_handle_ = "null"

\* Stop() has returned in a station that was trying to connect or connected.
C16_Witness ==
    /\ Stopped
    /\ obs.request # ""
    /\ sta.radio = "off"

\* The positions of Stop() from the given one on.
StopFrom(pc) ==
    CASE pc = "stop_got_ip" -> {"stop_got_ip", "stop_timer", "stop_radio", "stop_flags", "stop_set", "stopped"}
      [] pc = "stop_timer"  -> {"stop_timer", "stop_radio", "stop_flags", "stop_set", "stopped"}
      [] pc = "stop_radio"  -> {"stop_radio", "stop_flags", "stop_set", "stopped"}
      [] pc = "stop_flags"  -> {"stop_flags", "stop_set", "stopped"}
      [] pc = "stop_set"    -> {"stop_set", "stopped"}

\* C17: Stop() unregisters both handlers, then stops and deletes the timer,
\* then tears the radio down, then clears the Connected flag and only then
\* sets the Stopped flag: each step finds the earlier ones done and the later
\* ones not yet done, and the Stopped flag is never set while a handler is
\* registered, the timer is armed or the Connected flag is set.
C17_StopOrder ==
    /\ ctl.pc \in StopFrom("stop_got_ip") => ~sta_registered
    /\ ctl.pc \in StopFrom("stop_timer") => ~sta.instance_got_ip_
    /\ ctl.pc \in StopFrom("stop_radio") => sta.timer_handle_ = "null"
    /\ ctl.pc \in StopFrom("stop_flags") => sta.radio = "off"
    /\ ctl.pc \in StopFrom("stop_set") => "CONNECTED" \notin sta.event_group_
    /\ ctl.pc \in {"stop_got_ip", "stop_timer"} => sta.timer_handle_ # "null"
    /\ ctl.pc \in {"stop_got_ip", "stop_timer", "stop_radio"} => sta.radio # "off"
    /\ ("STOPPED" \in sta.event_group_) <=> Stopped
    /\ "STOPPED" \in sta.event_group_ =>
          /\ ~sta_registered
          /\ ~sta.instance_got_ip_
          /\ sta.timer_handle_ # "armed"
          /\ "CONNECTED" \notin sta.event_group_

\* Stop() of a connected station has torn the radio down and is about to
\* clear the Connected flag.
C17_Witness ==
    /\ ctl.pc = "stop_flags"
    /\ "CONNECTED" \in sta.event_group_
    /\ sta.radio = "off"

\* C18: WaitForConnected returns only with one of the two flags set or on
\* timeout, its result is true exactly when the Connected flag is among the
\* bits it returns with, and a caller that was blocked when Stop() began is
\* released by a flag only by Stop's last statement, after the teardown, and
\* then receives false.
C18_WaitRelease ==
    /\ obs.wait.result # "none" =>
          /\ obs.wait.cause \in {"bits", "immediate", "timeout"}
          /\ obs.wait.cause # "timeout" => obs.wait.bits # {}
          /\ obs.wait.result = "true" <=> "CONNECTED" \in obs.wait.bits
    /\ (obs.wait.cause = "bits" /\ obs.wait.at \in StopFrom("stop_got_ip")) =>
          /\ obs.wait.at = "stop_set"
          /\ obs.wait.result = "false"

\* The station is started, Stop() has not begun and the Connected flag is clear.
Running == ctl.pc = "started" /\ "CONNECTED" \notin sta.event_group_

\* A scan is in progress, or the driver is starting and its start event,
\* whose handler requests the first scan, is still to be delivered.
ScanInProgress == sta.radio \in {"starting", "scanning"}

\* A connect request was issued and the driver has not reported its outcome.
ConnectOutstanding == sta.radio = "connecting"

\* The station always has something to wait for, and the handler of a failed
\* connect attempt leaves a reconnect or the next candidate's attempt
\* outstanding or the rescan timer armed.
NeverIdle ==
    /\ Running => (ScanInProgress \/ ConnectOutstanding \/ RescanPending)
    /\ obs.event = "STA_DISCONNECTED" => (ConnectOutstanding \/ RescanPending)

\* C19: a started station that is not connected is never without a scan in
\* progress, a connect attempt outstanding or the rescan timer armed, every
\* failed connect attempt is followed by a reconnect, the next candidate or a
\* scheduled rescan, and, when the driver's events and the timer's expiries
\* are delivered, a station that is not stopped and does not connect scans
\* again and again.
C19_NoTerminalState ==
    /\ []NeverIdle
    /\ []<>(~Running \/ sta.radio = "scanning")

----------------------------------------------------------------------------
\* Part 3: DnsServer

station == <<sta_registered, was_connected_, sta, ctl, obs>>

\* The bytes of a received datagram; byte i of the buffer is element i + 1.
QueryBytes(q) ==
    [i \in 1..q.len |->
        CASE i = 3 -> q.head[1]
          [] i = 4 -> q.head[2]
          [] i = 7 -> q.head[3]
          [] i = 8 -> q.head[4]
          [] OTHER -> (i * 37) % 256]

\* b | 0x80 on a byte
SetBit80(b) == IF b >= 128 THEN b ELSE b + 128

\* buffer[2] |= 0x80; buffer[3] |= 0x80; buffer[7] = 1
Patch(buffer) ==
    [i \in 1..Len(buffer) |->
        IF i \in {3, 4} THEN SetBit80(buffer[i])
        ELSE IF i = 8 THEN 1
        ELSE buffer[i]]

\* The three memcpy calls: the name pointer, type, class, TTL and data length,
\* and the four bytes of gateway_.addr.
Answer(gateway) == <<192, 12>> \o <<0, 1, 0, 1, 0, 0, 0, 28, 0, 4>> \o gateway

\* The buffer up to len after the answer is appended.
Response(buffer, gateway) == Patch(buffer) \o Answer(gateway)

\* The offsets of buffer written while the response to a datagram of len
\* bytes is built: buffer[2], buffer[3], buffer[7] and the 2 + 10 + 4 bytes
\* copied to buffer[len] and after.
WrittenOffsets(len) == {2, 3, 7} \cup (len .. len + 15)

\* The appended bytes do not fit in the buffer: the memcpy calls write past
\* its end.
Overflows(len) == \E o \in WrittenOffsets(len) : o >= BufferSize

\* The value of a byte whose content the out-of-bounds write leaves undetermined.
Unknown == 256

\* What a build can do with a write past the end of the buffer, which is on
\* the stack next to client_addr, len and the saved registers: nothing that
\* shows, another endpoint, other bytes, or a crash of the task.
Outcomes(len) ==
    IF Overflows(len) THEN {"intact", "endpoint", "bytes", "crash"} ELSE {"intact"}

\* The record of the last datagram handled and of the last call is kept only
\* until the next step.
Quiet(d) ==
    [d EXCEPT !.answered = NoQuery, !.outcome = "none", !.sent = NoDatagram,
              !.op = "none"]

\* DnsServer::Stop(): returns at once when not running, else clears running_.
DnsStop ==
    /\ dns.caller.pc = "idle"
    /\ IF ~dns.running_
       THEN dns' = [Quiet(dns) EXCEPT !.op = "stop_noop"]
       ELSE dns' = [Quiet(dns) EXCEPT !.running_ = FALSE,
                                      !.caller = [pc |-> "stop_close", then |-> "return"]]
    /\ UNCHANGED <<manager, station>>

\* A Stop that leaves the socket open.
DnsStop_KeepSocket ==
    /\ dns.caller.pc = "stop_close"
    /\ dns' = [Quiet(dns) EXCEPT !.caller.pc = "stop_delay"]
    /\ UNCHANGED <<manager, station>>

\* ... shutdown and close of the socket, fd_ = -1
DnsStop_Close ==
    /\ dns.caller.pc = "stop_close"
    /\ dns' = [Quiet(dns) EXCEPT !.open = IF dns.fd_ >= 0 THEN @ \ {dns.fd_} ELSE @,
                                 !.fd_ = -1,
                                 !.caller.pc = "stop_delay"]
    /\ UNCHANGED <<manager, station>>

\* ... the delay when task_handle_ is set, task_handle_ = nullptr, and Stop
\* returns, to its caller or into Start.
DnsStop_Done ==
    /\ dns.caller.pc = "stop_delay"
    /\ dns' = [Quiet(dns) EXCEPT !.task_handle_ = 0,
                                 !.caller = IF dns.caller.then = "start"
                                            THEN [pc |-> "bringup", then |-> "return"]
                                            ELSE [pc |-> "idle", then |-> "return"]]
    /\ UNCHANGED <<manager, station>>

\* DnsServer::Start(gateway) is called: a running responder is stopped first.
DnsStart ==
    /\ dns.caller.pc = "idle"
    /\ dns.starts < MaxDnsStarts
    /\ IF dns.running_
       THEN dns' = [Quiet(dns) EXCEPT !.starts = @ + 1, !.running_ = FALSE,
                                      !.caller = [pc |-> "stop_close", then |-> "start"]]
       ELSE dns' = [Quiet(dns) EXCEPT !.starts = @ + 1,
                                      !.caller = [pc |-> "bringup", then |-> "return"]]
    /\ UNCHANGED <<manager, station>>

\* A Start that leaves the socket open when bind fails.
BringUp_Leaky(d, gateway, result) ==
    LET fd == d.sockets + 1
    IN CASE result = "socket_fails" ->
              [d EXCEPT !.gateway_ = gateway, !.given = gateway, !.fd_ = -1]
         [] result = "bind_fails" ->
              [d EXCEPT !.gateway_ = gateway, !.given = gateway,
                        !.sockets = fd, !.open = @ \cup {fd}, !.fd_ = fd]
         [] OTHER ->
              [d EXCEPT !.gateway_ = gateway, !.given = gateway,
                        !.sockets = fd, !.open = @ \cup {fd}, !.fd_ = fd,
                        !.running_ = TRUE,
                        !.loops = Append([i \in DOMAIN d.loops |->
                                             [d.loops[i] EXCEPT !.after = 0]],
                                         [pc |-> "enter", sock |-> 0, own |-> fd,
                                          query |-> NoQuery, after |-> 0]),
                        !.task_handle_ = Len(d.loops) + 1]

\* Start from gateway_ = gateway on: socket, bind, running_ = true and the
\* task created; result says whether socket() and bind() succeed.
BringUp(d, gateway, result) ==
    LET fd == d.sockets + 1
    IN CASE result = "socket_fails" ->
              [d EXCEPT !.gateway_ = gateway, !.given = gateway, !.fd_ = -1]
         [] result = "bind_fails" ->
              [d EXCEPT !.gateway_ = gateway, !.given = gateway,
                        !.sockets = fd, !.fd_ = -1]
         [] OTHER ->
              [d EXCEPT !.gateway_ = gateway, !.given = gateway,
                        !.sockets = fd, !.open = @ \cup {fd}, !.fd_ = fd,
                        !.running_ = TRUE,
                        !.loops = Append([i \in DOMAIN d.loops |->
                                             [d.loops[i] EXCEPT !.after = 0]],
                                         [pc |-> "enter", sock |-> 0, own |-> fd,
                                          query |-> NoQuery, after |-> 0]),
                        !.task_handle_ = Len(d.loops) + 1]

DnsStart_BringUp(gateway, result) ==
    /\ dns.caller.pc = "bringup"
    /\ dns' = [BringUp(Quiet(dns), gateway, result) EXCEPT
                  !.caller = [pc |-> "idle", then |-> "return"],
                  !.op = result]
    /\ UNCHANGED <<manager, station>>

\* The test of the while loop and the call of recvfrom on fd_; a loop that
\* leaves clears task_handle_.
LoopTest(d, i) ==
    IF d.running_
    THEN [d EXCEPT !.loops[i].pc = "recv", !.loops[i].sock = d.fd_,
                   !.loops[i].query = NoQuery]
    ELSE [d EXCEPT !.loops[i].pc = "exited", !.loops[i].query = NoQuery,
                   !.task_handle_ = 0]

\* The task enters DnsServer::Run.
Run_Enter(i) ==
    /\ dns.loops[i].pc = "enter"
    /\ dns' = Quiet(LoopTest(dns, i))
    /\ UNCHANGED <<manager, station>>

\* recvfrom returns a datagram.
Run_Receive(i, q) ==
    /\ dns.loops[i].pc = "recv"
    /\ dns.loops[i].sock \in dns.open
    /\ dns' = Quiet([dns EXCEPT !.loops[i].pc = "got", !.loops[i].query = q])
    /\ UNCHANGED <<manager, station>>

\* recvfrom fails because the socket was closed.
Run_ReceiveFails(i) ==
    /\ dns.loops[i].pc = "recv"
    /\ dns.loops[i].sock \notin dns.open
    /\ dns' = Quiet(LoopTest(dns, i))
    /\ UNCHANGED <<manager, station>>

\* The test of running_ after recvfrom has returned a datagram.
Run_Check(i) ==
    /\ dns.loops[i].pc = "got"
    /\ IF ~dns.running_
       THEN dns' = [Quiet(LoopTest(dns, i)) EXCEPT !.answered = dns.loops[i].query,
                                                   !.outcome = "dropped"]
       ELSE dns' = Quiet([dns EXCEPT !.loops[i].pc = "build"])
    /\ UNCHANGED <<manager, station>>

\* The rest of the loop body: the response built in the buffer, sendto on
\* fd_, and the test of the loop.
Run_Respond(i, outcome) ==
    /\ dns.loops[i].pc = "build"
    /\ LET q == dns.loops[i].query
           built == Response(QueryBytes(q), dns.gateway_)
           d0 == [Quiet(dns) EXCEPT !.answered = q,
                                    !.loops[i].after = IF dns.running_ THEN @ ELSE @ + 1]
       IN /\ outcome \in Outcomes(q.len)
          /\ IF outcome = "crash"
             THEN dns' = [d0 EXCEPT !.loops[i].pc = "crashed", !.loops[i].query = NoQuery,
                                    !.outcome = "crash"]
             ELSE IF dns.fd_ \notin dns.open
             THEN dns' = [LoopTest(d0, i) EXCEPT !.outcome = "send_failed"]
             ELSE dns' = [LoopTest(d0, i) EXCEPT
                            !.outcome = "sent",
                            !.sent = [to |-> IF outcome = "endpoint" THEN "unknown" ELSE q.from,
                                      data |-> IF outcome = "bytes"
                                               THEN SubSeq(built, 1, BufferSize) \o
                                                    [k \in 1..(q.len + 16 - BufferSize)
                                                        |-> Unknown]
                                               ELSE built,
                                      via |-> dns.fd_]]
    /\ UNCHANGED <<manager, station>>

\* One step of receive loop i that does not depend on a datagram arriving.
LoopStep(i) ==
    /\ i \in DOMAIN dns.loops
    /\ \/ Run_Enter(i)
       \/ Run_ReceiveFails(i)
       \/ Run_Check(i)
       \/ \E outcome \in {"intact", "endpoint", "bytes", "crash"} : Run_Respond(i, outcome)

NextDns ==
    \/ DnsStart
    \/ \E gateway \in Gateways : \E result \in {"ok", "socket_fails", "bind_fails"} :
          DnsStart_BringUp(gateway, result)
    \/ DnsStop
    \/ DnsStop_Close
    \/ DnsStop_Done
    \/ \E i \in DOMAIN dns.loops : Run_Enter(i)
    \/ \E i \in DOMAIN dns.loops : \E q \in Queries : Run_Receive(i, q)
    \/ \E i \in DOMAIN dns.loops : Run_ReceiveFails(i)
    \/ \E i \in DOMAIN dns.loops : Run_Check(i)
    \/ \E i \in DOMAIN dns.loops : \E outcome \in {"intact", "endpoint", "bytes", "crash"} :
          Run_Respond(i, outcome)

SpecDns == Init /\ [][NextDns]_vars

\* The responder with the arriving datagrams limited to the shortest query:
\* what Start, Stop and the loops do to each other does not depend on the
\* bytes received.
LifeQueries == {q \in Queries : q.len = 12}

NextDnsLife ==
    \/ DnsStart
    \/ \E gateway \in Gateways : \E result \in {"ok", "socket_fails", "bind_fails"} :
          DnsStart_BringUp(gateway, result)
    \/ DnsStop
    \/ DnsStop_Close
    \/ DnsStop_Done
    \/ \E i \in DOMAIN dns.loops : Run_Enter(i)
    \/ \E i \in DOMAIN dns.loops : \E q \in LifeQueries : Run_Receive(i, q)
    \/ \E i \in DOMAIN dns.loops : Run_ReceiveFails(i)
    \/ \E i \in DOMAIN dns.loops : Run_Check(i)
    \/ \E i \in DOMAIN dns.loops : \E outcome \in {"intact", "endpoint", "bytes", "crash"} :
          Run_Respond(i, outcome)

SpecDnsLife == Init /\ [][NextDnsLife]_vars

\* Every receive loop and the caller of Start and Stop keep running.
SpecDnsLifeFair ==
    /\ SpecDnsLife
    /\ \A i \in 1..MaxDnsStarts : WF_vars(LoopStep(i))
    /\ WF_vars(DnsStop_Close)
    /\ WF_vars(DnsStop_Done)

----------------------------------------------------------------------------
\* Properties of the DNS responder

\* C20: the datagram sent for a received query of length L, 12 <= L <= 500,
\* has length L + 16; its first L bytes are those of the query except that
\* bytes 2 and 3 have bit 0x80 set and byte 7 is 1; the 16 bytes after them are
\* C0 0C, 00 01, 00 01, 00 00 00 1C, 00 04 and the address given to Start; it
\* goes to the endpoint the query came from; and a datagram is sent for every
\* query handled unless Stop() intervenes.
C20_ResponseShape ==
    (/\ dns.answered.len >= 12
     /\ dns.answered.len <= 500
     /\ dns.outcome \notin {"dropped", "send_failed"}) =>
        LET L == dns.answered.len
            query == QueryBytes(dns.answered)
            out == dns.sent.data
        IN /\ dns.outcome = "sent"
           /\ Len(out) = L + 16
           /\ \A i \in 1..L :
                 out[i] = (CASE i \in {3, 4} -> (IF query[i] >= 128 THEN query[i]
                                                 ELSE query[i] + 128)
                             [] i = 8 -> 1
                             [] OTHER -> query[i])
           /\ SubSeq(out, L + 1, L + 12) = <<192, 12, 0, 1, 0, 1, 0, 0, 0, 28, 0, 4>>
           /\ SubSeq(out, L + 13, L + 16) = dns.given
           /\ dns.sent.to = dns.answered.from

\* The members of the responder and its loops, without the records kept
\* about the last step.
Members(d) == <<d.running_, d.fd_, d.gateway_, d.task_handle_, d.open, d.loops>>

\* A receive loop that has not left Run.
Live(i) == dns.loops[i].pc \notin {"exited", "crashed"}

\* Stop() has cleared running_ and closed the socket, and Start() has not
\* set running_ again.
Halted == ~dns.running_ /\ dns.caller.pc \in {"stop_delay", "idle"}

C22_FailedStart ==
    /\ [](dns.op \in {"socket_fails", "bind_fails"} =>
             /\ ~dns.running_
             /\ dns.fd_ < 0
             /\ dns.open = {}
             /\ dns.task_handle_ = 0)
    /\ [][dns'.op \in {"socket_fails", "bind_fails"} =>
             Len(dns'.loops) = Len(dns.loops)]_vars
    /\ [][(dns'.starts # dns.starts /\ ~dns.running_) =>
             dns'.caller.pc = "bringup"]_vars
    /\ [][(dns.caller.pc = "bringup" /\ dns'.op = "ok") =>
             /\ dns'.running_
             /\ dns'.fd_ \in dns'.open
             /\ Len(dns'.loops) = Len(dns.loops) + 1]_vars

\* The first Start() failed and the second one brought the responder up.
C22_Witness ==
    /\ dns.op = "ok"
    /\ dns.starts = 2
    /\ Len(dns.loops) = 1
    /\ dns.running_


\* C28: for every received query the 16-bit answer count of the response
\* (bytes 6 and 7 of the header, big-endian) is 1, whatever those bytes were
\* in the query, and the flag bits other than the response bit and the
\* recursion-available bit are those of the query.
C28_AnswerCount ==
    (dns.outcome = "sent" /\ dns.answered.len >= 12) =>
        LET query == QueryBytes(dns.answered)
            out == dns.sent.data
        IN /\ out[7] * 256 + out[8] = 1
           /\ out[3] >= 128 /\ out[3] % 128 = query[3] % 128
           /\ out[4] >= 128 /\ out[4] % 128 = query[4] % 128

\* C29: for every datagram length L that recvfrom can return, 0 <= L <= 512,
\* every byte written while the response is built (header bytes 2, 3 and 7 and
\* the 16 answer bytes at offsets L .. L + 15) lies inside the 512-byte buffer.
C29_WritesInBuffer ==
    (dns.outcome \in {"sent", "send_failed", "crash"} /\ dns.answered.len \in 0..BufferSize) =>
        \A o \in WrittenOffsets(dns.answered.len) : o >= 0 /\ o < BufferSize

\* C30: at most one receive loop is live at any time, and a loop only ever
\* waits on, and answers through, the socket bound by the Start() that spawned
\* it, for every sequence of Start and Stop calls: a loop of an earlier Start
\* never sees running_ true again and never uses the socket of a later one.
C30_OneLoopOneSocket ==
    /\ Cardinality({i \in DOMAIN dns.loops : Live(i)}) <= 1
    /\ \A i \in DOMAIN dns.loops :
          dns.loops[i].pc \in {"recv", "got", "build"} =>
              dns.loops[i].sock = dns.loops[i].own

-----------------------------------------------------------------------------
\* Part 4: WifiConfigurationAp::ConnectToWifi, the periodic scan timer of the
\* configuration AP and its event handlers. The HTTP server runs its handlers
\* on one task, so one ConnectToWifi call is in progress at a time; the timer
\* callback runs on the timer task and the event handlers on the event task.

\* Everything but the configuration AP.
outside == <<flags, event_callback_, mutex_, ap_running, stack, bringup, calls,
             monitors, station, dns>>

\* ConnectToWifi calls made.
MaxAttempts == 2

\* ssid.length() of the SSIDs submitted.
SsidLengths == {0, 1, 32, 33}

\* if (ssid.length() > 32)
MaxSsidLength == 32

\* A check that only refuses the empty SSID.
ValidSsid_Lax(len) == len # 0

\* The two checks at the head of ConnectToWifi.
ValidSsid(len) == len # 0 /\ len <= MaxSsidLength

\* A result that only looks for the absence of WIFI_FAIL_BIT.
ConnectResult_NoFail(bits) == "FAIL" \notin bits

\* if (bits & WIFI_CONNECTED_BIT)
ConnectResult(bits) == "CONNECTED" \in bits

\* A call of the radio driver made by ConnectToWifi.
DriverCall(a, name) == [a EXCEPT !.calls = Append(@, name)]

\* xEventGroupSetBits: a caller blocked in xEventGroupWaitBits is released
\* with the bits as they are now, and the bits it waited for are cleared
\* (clear on exit); otherwise the bit stays set. by is the ConnectToWifi call
\* whose request caused the event that sets the bit.
ApSetBits(a, bit, by) ==
    IF a.caller.pc = "blocked"
    THEN [a EXCEPT !.caller = [pc |-> "woken", bits |-> a.event_group_ \cup {bit}],
                   !.event_group_ = {},
                   !.seen_from = a.flag_by \cup {by}, !.flag_by = {}]
    ELSE [a EXCEPT !.event_group_ = @ \cup {bit}, !.flag_by = @ \cup {by}]

\* esp_wifi_disconnect: a link that is up or coming up goes down and the
\* driver posts WIFI_EVENT_STA_DISCONNECTED.
ApDisconnect(a) ==
    IF a.link = "idle" THEN a
    ELSE [a EXCEPT !.link = "idle", !.pending = Append(@, "STA_DISCONNECTED"),
                   !.origin = Append(@, a.link_by)]

\* WifiConfigurationAp::Start: the handlers are registered, a scan is started
\* and the periodic timer is created and started.
ApStart ==
    /\ ~ap.started
    /\ ap' = [ap EXCEPT !.started = TRUE, !.scanning = TRUE]
    /\ UNCHANGED outside

\* ConnectToWifi up to is_connecting_ = true: an empty or oversized SSID
\* returns false at once.
ConnectToWifi_Call(len) ==
    /\ ap.started
    /\ ap.caller.pc = "idle"
    /\ ap.attempts < MaxAttempts
    /\ IF ~ValidSsid(len)
       THEN ap' = [ap EXCEPT !.attempts = @ + 1, !.given = len, !.calls = <<>>,
                             !.result = "false", !.cause = "invalid",
                             !.caller.bits = {}]
       ELSE ap' = [ap EXCEPT !.attempts = @ + 1, !.given = len, !.calls = <<>>,
                             !.result = "none", !.cause = "none",
                             !.timer_scan_at = "none", !.seen_from = {},
                             !.is_connecting_ = TRUE,
                             !.caller = [pc |-> "scan_stop", bits |-> {}]]
    /\ UNCHANGED outside

\* esp_wifi_scan_stop()
ConnectToWifi_ScanStop ==
    /\ ap.caller.pc = "scan_stop"
    /\ ap' = DriverCall([ap EXCEPT !.scanning = FALSE, !.caller.pc = "clear"], "scan_stop")
    /\ UNCHANGED outside

\* xEventGroupClearBits(event_group_, WIFI_CONNECTED_BIT | WIFI_FAIL_BIT)
ConnectToWifi_ClearBits ==
    /\ ap.caller.pc = "clear"
    /\ ap' = [ap EXCEPT !.event_group_ = {}, !.flag_by = {}, !.caller.pc = "connect"]
    /\ UNCHANGED outside

\* esp_wifi_set_config and esp_wifi_connect: a connect the driver refuses
\* clears is_connecting_ and returns false.
ConnectToWifi_Connect(ret) ==
    /\ ap.caller.pc = "connect"
    /\ LET a == DriverCall(DriverCall(ap, "set_config"), "connect")
       IN IF ret = "ESP_OK"
          THEN ap' = [a EXCEPT !.link = "connecting", !.link_by = a.attempts,
                               !.caller.pc = "wait"]
          ELSE ap' = [a EXCEPT !.is_connecting_ = FALSE, !.result = "false",
                               !.cause = "rejected", !.caller.pc = "idle"]
    /\ UNCHANGED outside

\* xEventGroupWaitBits is entered: with a bit already set it returns at once
\* and clears the bits, otherwise the caller blocks.
ConnectToWifi_Wait ==
    /\ ap.caller.pc = "wait"
    /\ IF ap.event_group_ # {}
       THEN ap' = [ap EXCEPT !.caller = [pc |-> "woken", bits |-> ap.event_group_],
                             !.event_group_ = {},
                             !.seen_from = ap.flag_by, !.flag_by = {}]
       ELSE ap' = [ap EXCEPT !.caller.pc = "blocked"]
    /\ UNCHANGED outside

\* The 10 seconds pass with no bit set.
ConnectToWifi_Timeout ==
    /\ ap.caller.pc = "blocked"
    /\ ap' = [ap EXCEPT !.caller = [pc |-> "woken", bits |-> {}], !.cause = "timeout"]
    /\ UNCHANGED outside

\* is_connecting_ = false after the wait.
ConnectToWifi_Finish ==
    /\ ap.caller.pc = "woken"
    /\ ap' = [ap EXCEPT !.is_connecting_ = FALSE, !.caller.pc = "finish"]
    /\ UNCHANGED outside

\* The test of the bits: esp_wifi_disconnect() and true, or false.
ConnectToWifi_Return ==
    /\ ap.caller.pc = "finish"
    /\ IF ConnectResult(ap.caller.bits)
       THEN ap' = [ApDisconnect(DriverCall(ap, "disconnect")) EXCEPT
                      !.result = "true", !.cause = "connected", !.caller.pc = "idle"]
       ELSE ap' = [ap EXCEPT !.result = "false",
                             !.cause = IF @ = "timeout" THEN @ ELSE "failed",
                             !.caller.pc = "idle"]
    /\ UNCHANGED outside

\* The driver associates with the network and posts WIFI_EVENT_STA_CONNECTED.
ApDriver_Associates ==
    /\ ap.link = "connecting"
    /\ ap' = [ap EXCEPT !.link = "associated", !.pending = Append(@, "STA_CONNECTED"),
                        !.origin = Append(@, ap.link_by)]
    /\ UNCHANGED outside

\* The interface gets its address: IP_EVENT_STA_GOT_IP is posted.
ApDriver_GotIp ==
    /\ ap.link = "associated"
    /\ ap' = [ap EXCEPT !.link = "up", !.pending = Append(@, "GOT_IP"),
                        !.origin = Append(@, ap.link_by)]
    /\ UNCHANGED outside

\* The connect fails or the link is lost: WIFI_EVENT_STA_DISCONNECTED is posted.
ApDriver_Fails ==
    /\ ap.link # "idle"
    /\ ap' = ApDisconnect(ap)
    /\ UNCHANGED outside

\* The scan in progress completes.
ApDriver_ScanDone ==
    /\ ap.scanning
    /\ ap' = [ap EXCEPT !.scanning = FALSE]
    /\ UNCHANGED outside

\* WifiConfigurationAp::WifiEventHandler for the two station events it acts on.
ApWifiEventHandler ==
    /\ ap.pending # <<>>
    /\ Head(ap.pending) \in {"STA_CONNECTED", "STA_DISCONNECTED"}
    /\ ap' = ApSetBits([ap EXCEPT !.pending = Tail(@), !.origin = Tail(@)],
                       IF Head(ap.pending) = "STA_CONNECTED" THEN "CONNECTED" ELSE "FAIL",
                       Head(ap.origin))
    /\ UNCHANGED outside

\* WifiConfigurationAp::IpEventHandler
ApIpEventHandler ==
    /\ ap.pending # <<>>
    /\ Head(ap.pending) = "GOT_IP"
    /\ ap' = ApSetBits([ap EXCEPT !.pending = Tail(@), !.origin = Tail(@)], "CONNECTED",
                       Head(ap.origin))
    /\ UNCHANGED outside

\* The timer callback reads is_connecting_.
ScanTimer_Test ==
    /\ ap.started
    /\ ap.timer = "idle"
    /\ ~ap.is_connecting_
    /\ ap' = [ap EXCEPT !.timer = "scan"]
    /\ UNCHANGED outside

\* The timer callback, having read is_connecting_ as false, calls
\* esp_wifi_scan_start.
ScanTimer_Scan ==
    /\ ap.timer = "scan"
    /\ ap' = [ap EXCEPT !.timer = "idle", !.scanning = TRUE,
                        !.timer_scan_at = ap.caller.pc]
    /\ UNCHANGED outside

NextAp ==
    \/ ApStart
    \/ \E len \in SsidLengths : ConnectToWifi_Call(len)
    \/ ConnectToWifi_ScanStop
    \/ ConnectToWifi_ClearBits
    \/ \E ret \in {"ESP_OK", "ESP_FAIL"} : ConnectToWifi_Connect(ret)
    \/ ConnectToWifi_Wait
    \/ ConnectToWifi_Timeout
    \/ ConnectToWifi_Finish
    \/ ConnectToWifi_Return
    \/ ApDriver_Associates
    \/ ApDriver_GotIp
    \/ ApDriver_Fails
    \/ ApDriver_ScanDone
    \/ ApWifiEventHandler
    \/ ApIpEventHandler
    \/ ScanTimer_Test
    \/ ScanTimer_Scan

SpecAp == Init /\ [][NextAp]_vars

\* C23: ConnectToWifi with an empty SSID or one longer than 32 bytes returns
\* false without any call of the radio driver (no scan stop, set-config or
\* connect) and without changing is_connecting_ or the event flags.
C23_InvalidSsid ==
    [][(ap'.attempts # ap.attempts /\ (ap'.given = 0 \/ ap'.given > 32)) =>
          /\ ap'.result = "false"
          /\ ap'.caller.pc = "idle"
          /\ ap'.calls = <<>>
          /\ ap'.is_connecting_ = ap.is_connecting_
          /\ ap'.event_group_ = ap.event_group_
          /\ <<ap'.link, ap'.scanning, ap'.pending>> = <<ap.link, ap.scanning, ap.pending>>]_vars

\* An SSID of 33 bytes was refused while flags of an earlier attempt were set.
C23_Witness ==
    /\ ap.given = 33 /\ ap.cause = "invalid" /\ ap.result = "false"
    /\ ap.attempts = 2 /\ ap.event_group_ # {}

Outstanding == {"clear", "connect", "wait", "blocked", "woken"}

\* C25: while a verification attempt is outstanding, from is_connecting_ set
\* and scanning stopped until ConnectToWifi returns, the periodic timer never
\* starts a scan, for every interleaving of its callback with ConnectToWifi;
\* and is_connecting_ is false whenever no ConnectToWifi call is executing.
C25_NoScanWhileConnecting ==
    /\ ap.timer_scan_at \notin Outstanding
    /\ ap.caller.pc = "idle" => ~ap.is_connecting_

\* C26: on a Disconnected event the station does exactly one of three things,
\* in this priority: with reconnect_count_ < 5 it reconnects to the same
\* candidate and increments the counter, the queue and the scan interval
\* unchanged; otherwise with a non-empty queue it pops the head, connects to
\* it and sets the counter to 0; otherwise it arms the rescan timer with the
\* current interval and then doubles the interval, capped at the maximum,
\* without a connect.
C26_DisconnectPriority ==
    [][WifiEventHandler_Disconnected =>
          LET current == sta.scan_current_interval_microseconds_
          IN IF sta.reconnect_count_ < 5
             THEN /\ sta'.radio = "connecting"
                  /\ obs'.request = sta.ssid_
                  /\ sta'.ssid_ = sta.ssid_
                  /\ sta'.reconnect_count_ = sta.reconnect_count_ + 1
                  /\ sta'.connect_queue_ = sta.connect_queue_
                  /\ sta'.scan_current_interval_microseconds_ = current
                  /\ sta'.timer_handle_ = sta.timer_handle_
             ELSE IF sta.connect_queue_ # <<>>
             THEN /\ sta'.radio = "connecting"
                  /\ obs'.request = Head(sta.connect_queue_)
                  /\ sta'.ssid_ = Head(sta.connect_queue_)
                  /\ sta'.connect_queue_ = Tail(sta.connect_queue_)
                  /\ sta'.reconnect_count_ = 0
                  /\ sta'.scan_current_interval_microseconds_ = current
                  /\ sta'.timer_handle_ = sta.timer_handle_
             ELSE /\ sta'.radio # "connecting"
                  /\ sta'.timer_handle_ = "armed"
                  /\ obs'.delay = current
                  /\ sta'.scan_current_interval_microseconds_ % 1000000 = 0
                  /\ sta'.scan_current_interval_microseconds_ \div 1000000 =
                        Min(2 * (current \div 1000000), MaxSeconds)
                  /\ sta'.connect_queue_ = <<>>
                  /\ sta'.reconnect_count_ = sta.reconnect_count_]_vars

\* C27: once a got-address event is handled the Connected flag is set, the
\* Connected callback has fired once for it, the candidate queue is empty,
\* reconnect_count_ is 0 and the current scan interval is the minimum; so when
\* that connection is lost later the station retries the same network up to
\* 5 times, and the first rescan it schedules uses the minimum interval.
C27_AfterGotAddress ==
    /\ [][IpEventHandler =>
             /\ "CONNECTED" \in sta'.event_group_
             /\ obs'.cbs = <<(<<"connected", sta.ssid_>>)>>
             /\ sta'.connect_queue_ = <<>>
             /\ sta'.reconnect_count_ = 0
             /\ sta'.scan_current_interval_microseconds_ = MinSeconds * 1000000]_vars
    /\ [][(WifiEventHandler_Disconnected /\ obs'.since_ip \in 1..5) =>
             /\ sta'.radio = "connecting"
             /\ obs'.request = sta.ssid_
             /\ sta'.ssid_ = sta.ssid_
             /\ sta'.reconnect_count_ = obs'.since_ip
             /\ sta'.connect_queue_ = <<>>
             /\ sta'.scan_current_interval_microseconds_ = MinSeconds * 1000000]_vars
    /\ [][(WifiEventHandler_Disconnected /\ obs'.since_ip = 6) =>
             /\ sta'.radio # "connecting"
             /\ obs'.delay = MinSeconds * 1000000
             /\ sta.timer_handle_ # "null" => sta'.timer_handle_ = "armed"]_vars

\* A connection was lost, the five retries failed and the rescan is scheduled
\* after the minimum interval, which is then doubled for the next one.
C27_Witness ==
    /\ obs.event = "STA_DISCONNECTED" /\ obs.since_ip = 6
    /\ RescanPending /\ obs.delay = MinSeconds * 1000000
    /\ sta.scan_current_interval_microseconds_ = 2 * MinSeconds * 1000000

\* C33: whenever a station event handler arms the rescan timer (ScanDone with
\* no known network, or the retries and the queue exhausted), the timer that
\* Start() creates exists, for every interleaving of Start() with the
\* delivery of driver events.
C33_TimerExistsWhenArmed ==
    [][((ScanCompletes \/ WifiEventHandler_Disconnected) /\ sta'.radio = "idle")
          => sta.timer_handle_ # "null"]_vars

\* Configured ranges, in seconds, whose microsecond counts fit in an int:
\* the defaults, a range whose maximum is past half of INT_MAX microseconds,
\* and the smallest and the largest single-value range.
FittingRanges == {DefaultRange, <<600, 1800>>, <<1, 1>>, <<2147, 2147>>}

\* The station constructed with one of these ranges as its configuration.
InitFitting ==
    /\ ManagerInit
    /\ sta = NewStation
    /\ ctl \in {NewControl(range) : range \in FittingRanges}
    /\ obs = NoObs
    /\ dns = NewDns
    /\ ap = NewAp

SpecFitting == InitFitting /\ [][NextStation]_vars

\* C36: with the intervals held as int microsecond counts, for every
\* configuration 0 < min <= max whose microsecond values fit in 32 bits the
\* doubling in UpdateScanInterval never overflows, and min <= current <= max
\* holds in every reachable state of the station.
C36_IntervalInRange ==
    /\ [](ctl.pc # "new" =>
             /\ sta.scan_min_interval_microseconds_ = MinSeconds * 1000000
             /\ sta.scan_max_interval_microseconds_ = MaxSeconds * 1000000
             /\ sta.scan_min_interval_microseconds_ <= sta.scan_current_interval_microseconds_
             /\ sta.scan_current_interval_microseconds_ <= sta.scan_max_interval_microseconds_)
    /\ [][(sta'.scan_current_interval_microseconds_ # sta.scan_current_interval_microseconds_
              /\ (ScanCompletes \/ WifiEventHandler_Disconnected))
            => sta.scan_current_interval_microseconds_ <= INT_MAX \div 2]_vars

\* C34: the CONNECTED and STOPPED bits are never both set; from the return of
\* Stop() to the next Start() the CONNECTED bit is clear and the STOPPED bit
\* is set, so IsConnected() is false and WaitForConnected returns false
\* without blocking; and Start() clears the STOPPED bit before a handler is
\* registered.
C34_FlagsExclusive ==
    /\ [](~({"CONNECTED", "STOPPED"} \subseteq sta.event_group_))
    /\ [](Stopped =>
             /\ "CONNECTED" \notin sta.event_group_
             /\ "STOPPED" \in sta.event_group_
             /\ ctl.waiter = "idle")
    /\ [][(WaitForConnected_Call /\ Stopped) =>
             /\ ctl'.waiter = "idle"
             /\ obs'.wait.cause = "immediate"
             /\ obs'.wait.result = "false"]_vars
    /\ []((sta_registered \/ sta.instance_got_ip_) => "STOPPED" \notin sta.event_group_)

\* WaitForConnected was called on a stopped station that had been connected
\* and returned false at once.
C34_Witness ==
    /\ Stopped
    /\ obs.wait = [result |-> "false", cause |-> "immediate", bits |-> {"STOPPED"}, at |-> "none"]
    /\ sta.ssid_ # ""
    /\ sta.event_group_ = {"STOPPED", "SCAN_DONE"}

\* C35: what a ConnectToWifi call returns depends only on the driver events
\* its own connect request caused: an event left over from an earlier call,
\* delivered after the later call has cleared its flags, never sets a bit
\* that the later call's wait returns.
C35_OwnEventsOnly ==
    (ap.caller.pc \in {"woken", "finish", "idle"} /\ ap.cause # "invalid") =>
        ap.seen_from \subseteq {ap.attempts}

\* C31: a component is never started while it is already started: every
\* station_->Start() the orchestrator makes finds the station stopped (its
\* last Start() was followed by a Stop()), and every config_ap_->Start() finds
\* the configuration AP stopped, whatever the contexts and the callback call.
C31_NoDoubleStart ==
    /\ [][(\E c \in Contexts : StartStation_Start(c)) => ~sta_registered]_vars
    /\ [][(\E c \in Contexts : StartConfigAp_Start(c)) => ~ap_running]_vars

\* C32: in the events delivered to the callback every Disconnected follows a
\* Connected that no other Disconnected has followed: no Disconnected comes
\* before the first Connected and no two come without a Connected between.
C32_DisconnectedAfterConnected == linkSeq # "bad"
====
